---- MODULE Spec2Model ----
(***************************************************************************)
(* Liquidity aggregation and pooling simulation of                         *)
(* src/app/liquidity-form.tsx (calculateSummary), the handlers of the form *)
(* that change the entries, the what-if sliders and the filters, and the   *)
(* named-snapshot store of src/lib/storage.ts.                             *)
(*                                                                         *)
(* Numbers.  JavaScript numbers are modelled as exact decimal fixed-point  *)
(* integers: an amount a is the integer a * 10^6 (micro-units), an FX     *)
(* rate r is the integer r * RateScale (per-mille).  Every product         *)
(* cash * rate the model forms is an exact multiple of RateScale, so the   *)
(* division below loses nothing.  Interest rates are plain integers.       *)
(*                                                                         *)
(* Field values that are not finite numbers.  An amount or rate field of   *)
(* the form holds what the inputs and the Excel import put there: a number *)
(* or a text.  NaN and the texts are represented by reserved integers far  *)
(* below every amount; ParseFloat, ToNumber and JsPlus give them the       *)
(* meaning JavaScript gives them.                                          *)
(*                                                                         *)
(* What-if parameters.  The sliders move in steps of 0.1 (haircut) and     *)
(* 0.01 (rates) percent; the model counts these steps.  The amounts of the *)
(* what-if inputs are multiples of 0.01, so that the divisions by the      *)
(* scales below are exact.                                                 *)
(***************************************************************************)
EXTENDS Integers, Sequences, FiniteSets, TLC

VARIABLES
    entries,    \* the form's entry list (FormValues.entries)
    summary,    \* the GlobalSummary held in React state
    pc,         \* calculateSummary has not run on entries yet ("input"), has
                \* run ("done"), has run again from the watch callback ("again")
    fxHaircut,          \* the FX haircut slider, in tenths of a percent
    blendedCreditRate,  \* the credit rate slider, in hundredths of a percent
    usdDebitRate,       \* the debit rate slider, in hundredths of a percent
    filters,                \* the filters of the summary table
    selectedCurrencies,     \* client index -> the codes ticked in its selection
    currencySelectionOpen,  \* client index -> its currency selection is open
    toast,                  \* the toast shown last
    clientName,         \* the name typed into the save dialog
    saveDialogOpen,     \* the save dialog is shown
    loadDialogOpen,     \* the load dialog is shown
    savedClients,       \* the saved configurations held in React state
    clientStore,        \* localStorage item "liquidity_client_store"
    liquidityData,      \* localStorage item "liquidity_data"
    storage,            \* what the browser lets the page do with localStorage
    tabs,               \* sessions in the middle of saveToClientStore
    edits               \* handlers run since the first calculation

\* the what-if sliders
sliderVars == <<fxHaircut, blendedCreditRate, usdDebitRate>>

\* the state of the form's currency selection, the filters and the toast
controlVars == <<filters, selectedCurrencies, currencySelectionOpen, toast>>

\* the state of the save and load dialogs and of the browser's storage
storeVars ==
    <<clientName, saveDialogOpen, loadDialogOpen, savedClients, clientStore,
      liquidityData, storage, tabs>>

vars == <<entries, summary, pc, sliderVars, controlVars, storeVars, edits>>

(***************************************************************************)
(* Bounds of the model                                                     *)
(***************************************************************************)
MaxClients == 2
MaxPositions == 2

(***************************************************************************)
(* Number representation                                                   *)
(***************************************************************************)
\* the FX rate 1 (the "|| 1" fallback), per-mille
RateScale == 1000
\* Math.max(0.1, x): the 0.1 of the link fields, in micro-units
MinLinkValue == 100000

Max(a, b) == IF a >= b THEN a ELSE b

\* the number NaN
NaN == 0 - 2000000000
\* the text "": a cleared number input
EmptyText == NaN + 1
\* a text that is no number, such as "abc" in an imported sheet
MalformedText == NaN + 2
\* a text built by += from a number and a text
JoinedText == NaN + 3
\* null, as JSON.stringify writes NaN
JsonNull == NaN + 4
\* the text of the decimal number n >= 0, as a number input holds it
TextBase == 0 - 1000000000
NumericText(n) == TextBase + n
\* every finite number of the model lies at or above it, NaN and every text
\* below
LeastNumber == 0 - 500000000

IsNumericText(v) == v >= TextBase /\ v < LeastNumber

TextNumber(v) == v - TextBase

\* typeof v === "string"
IsText(v) == v < LeastNumber /\ v # NaN /\ v # JsonNull

\* parseFloat(String(v))
ParseFloat(v) ==
    IF v >= LeastNumber THEN v
    ELSE IF IsNumericText(v) THEN TextNumber(v)
    ELSE NaN

\* the number JavaScript converts v to in <=, * and Math.max
ToNumber(v) ==
    IF v >= LeastNumber THEN v
    ELSE IF IsNumericText(v) THEN TextNumber(v)
    ELSE IF v = EmptyText \/ v = JsonNull THEN 0
    ELSE NaN

\* a + b of JavaScript: concatenation as soon as one side is a text
JsPlus(a, b) ==
    IF a >= LeastNumber /\ b >= LeastNumber THEN a + b
    ELSE IF IsText(a) \/ IsText(b) THEN JoinedText
    ELSE NaN

(***************************************************************************)
(* Reference tables                                                        *)
(***************************************************************************)
Restricted == "Restricted Currencies"
Partial == "Partially Convertible"
Free == "Freely Convertible Currencies"

ConvertibilityCategory == {Restricted, Partial, Free}

\* country -> category (the notes carry no behaviour)
currencyConvertibility ==
    [c \in {"Vietnam", "India", "China"} |-> Restricted] @@
    [c \in {"Malaysia", "Indonesia", "Philippines", "Thailand", "Taiwan"} |-> Partial] @@
    [c \in {"Singapore", "Hong Kong", "Australia", "United States",
            "United Kingdom", "Japan", "South Korea"} |-> Free]

\* fxRates[from][to], per-mille
fxRates ==
    [from \in {"USD", "EUR", "SGD", "MYR", "INR"} |->
        CASE from = "USD" -> ("EUR" :> 920 @@ "SGD" :> 1350 @@ "MYR" :> 4750 @@ "INR" :> 83250)
          [] from = "EUR" -> ("USD" :> 1090 @@ "SGD" :> 1470 @@ "MYR" :> 5170 @@ "INR" :> 90730)
          [] from = "SGD" -> ("USD" :> 740 @@ "EUR" :> 680 @@ "MYR" :> 3520 @@ "INR" :> 61670)
          [] from = "MYR" -> ("USD" :> 210 @@ "EUR" :> 190 @@ "SGD" :> 280 @@ "INR" :> 17520)
          [] from = "INR" -> ("USD" :> 12 @@ "EUR" :> 11 @@ "SGD" :> 16 @@ "MYR" :> 57)]

\* category -> pooling rule; targetCurrency "" stands for an absent field
poolingRules ==
    [cat \in ConvertibilityCategory |->
        CASE cat = Restricted -> [canPool |-> FALSE, requiresConversion |-> FALSE, targetCurrency |-> ""]
          [] cat = Partial    -> [canPool |-> TRUE,  requiresConversion |-> TRUE,  targetCurrency |-> "USD"]
          [] cat = Free       -> [canPool |-> TRUE,  requiresConversion |-> FALSE, targetCurrency |-> ""]]

(***************************************************************************)
(* The summary before any computation (useState initial value) and for an  *)
(* empty entry list                                                        *)
(***************************************************************************)
EmptyCategoryTotals ==
    [totalCash |-> 0, totalBorrowing |-> 0, netPosition |-> 0, countries |-> <<>>]

EmptySummary ==
    [clients |-> <<>>,
     currencyTotals |-> <<>>,
     convertibilityTotals |-> [cat \in ConvertibilityCategory |-> EmptyCategoryTotals],
     rtcMetrics |-> [potentialUpstreamToRTC |-> 0, restrictedFunds |-> 0, pendingConversion |-> 0],
     poolingSimulation |-> [nodes |-> <<>>, links |-> <<>>, rtcTotal |-> 0]]

(***************************************************************************)
(* Position Aggregator: first forEach of calculateSummary                  *)
(***************************************************************************)
NamelessOnly(client) == client.clientName = ""

\* the validity guard shared by both passes: a falsy name, country or
\* currency list skips the entry
IsSkipped(client) ==
    \/ client.clientName = ""
    \/ client.operatingCountry = ""
    \/ Len(client.currencies) = 0

ParseWithoutFallback(x) == ParseFloat(x)

\* parseFloat(String(x)) || 0: NaN and 0 are falsy
ParseAmount(x) ==
    LET parsed == ParseFloat(x)
    IN  IF parsed = NaN THEN 0 ELSE parsed

\* the bucket created on first sight of a currency code
NewCurrencyBucket(cashInterestRate, borrowingInterestRate, borrowingTenor) ==
    [totalCash |-> 0,
     totalBorrowing |-> 0,
     netPosition |-> 0,
     cashInterestRate |-> cashInterestRate,
     borrowingInterestRate |-> borrowingInterestRate,
     borrowingTenor |-> borrowingTenor]

LastWriteRate(stored, observed) == observed

\* "Update rates only if they are higher than existing ones"
UpdateRate(stored, observed) ==
    IF observed > stored THEN observed ELSE stored

ObservedTenor(stored, observed) == observed

\* the else branch never assigns borrowingTenor: the stored one stays
UpdateTenor(stored, observed) == stored

\* the else branch of the bucket lookup
SeenCurrencyBucket(bucket, cashInterestRate, borrowingInterestRate, borrowingTenor) ==
    [bucket EXCEPT
        !.cashInterestRate = UpdateRate(@, cashInterestRate),
        !.borrowingInterestRate = UpdateRate(@, borrowingInterestRate),
        !.borrowingTenor = UpdateTenor(@, borrowingTenor)]

AccumulateDropBorrowing(bucket, cashAmount, borrowingAmount) ==
    [bucket EXCEPT
        !.totalCash = @ + cashAmount,
        !.netPosition = @ + (cashAmount - borrowingAmount)]

\* the three += on the bucket
Accumulate(bucket, cashAmount, borrowingAmount) ==
    [bucket EXCEPT
        !.totalCash = @ + cashAmount,
        !.totalBorrowing = @ + borrowingAmount,
        !.netPosition = @ + (cashAmount - borrowingAmount)]

\* one iteration of client.currencies.forEach on currencyTotals
AddToCurrencyTotals(totals, currency) ==
    IF currency.currencyCode = "" THEN totals
    ELSE
        LET code == currency.currencyCode
            cashAmount == ParseAmount(currency.cashAmount)
            borrowingAmount == ParseAmount(currency.borrowingAmount)
            cashInterestRate == ParseAmount(currency.cashInterestRate)
            borrowingInterestRate == ParseAmount(currency.borrowingInterestRate)
            bucket ==
                IF code \notin DOMAIN totals
                THEN NewCurrencyBucket(cashInterestRate, borrowingInterestRate,
                                       currency.borrowingTenor)
                ELSE SeenCurrencyBucket(totals[code], cashInterestRate,
                                        borrowingInterestRate, currency.borrowingTenor)
        IN  [c \in (DOMAIN totals) \cup {code} |->
                IF c = code THEN Accumulate(bucket, cashAmount, borrowingAmount)
                ELSE totals[c]]

RECURSIVE CurrencyTotalsOf(_, _, _)
CurrencyTotalsOf(totals, currencies, i) ==
    IF i > Len(currencies) THEN totals
    ELSE CurrencyTotalsOf(AddToCurrencyTotals(totals, currencies[i]), currencies, i + 1)

\* countrySummary.currencies: one row per position with a non-empty code
RECURSIVE CountryCurrencies(_, _)
CountryCurrencies(currencies, i) ==
    IF i > Len(currencies) THEN <<>>
    ELSE
        LET currency == currencies[i]
            cashAmount == ParseAmount(currency.cashAmount)
            borrowingAmount == ParseAmount(currency.borrowingAmount)
            row == [currencyCode |-> currency.currencyCode,
                    totalCash |-> cashAmount,
                    totalBorrowing |-> borrowingAmount,
                    netPosition |-> cashAmount - borrowingAmount]
        IN  (IF currency.currencyCode = "" THEN <<>> ELSE <<row>>)
                \o CountryCurrencies(currencies, i + 1)

ClientSummaryOf(client) ==
    [clientName |-> client.clientName,
     countries |-> <<[country |-> client.operatingCountry,
                      currencies |-> CountryCurrencies(client.currencies, 1)]>>]

Contains(seq, x) == \E i \in 1..Len(seq) : seq[i] = x

PushCountry(countries, country) == Append(countries, country)

\* countries.includes(...) guard followed by push
AddCountry(countries, country) ==
    IF Contains(countries, country) THEN countries ELSE Append(countries, country)

\* second client.currencies.forEach: the category totals take every position
RECURSIVE CategoryTotalsOf(_, _, _)
CategoryTotalsOf(tot, currencies, i) ==
    IF i > Len(currencies) THEN tot
    ELSE
        LET cashAmount == ParseAmount(currencies[i].cashAmount)
            borrowingAmount == ParseAmount(currencies[i].borrowingAmount)
        IN  CategoryTotalsOf(
                [tot EXCEPT
                    !.totalCash = @ + cashAmount,
                    !.totalBorrowing = @ + borrowingAmount,
                    !.netPosition = @ + (cashAmount - borrowingAmount)],
                currencies, i + 1)

UnknownAsRestricted(conv, client) ==
    LET category ==
            IF client.operatingCountry \in DOMAIN currencyConvertibility
            THEN currencyConvertibility[client.operatingCountry]
            ELSE Restricted
        withCountry ==
            [conv[category] EXCEPT
                !.countries = AddCountry(@, client.operatingCountry)]
    IN  [conv EXCEPT ![category] = CategoryTotalsOf(withCountry, client.currencies, 1)]

\* "if (convertibility)": a country without table entry leaves the category
\* totals alone
AddToConvertibilityTotals(conv, client) ==
    IF client.operatingCountry \notin DOMAIN currencyConvertibility THEN conv
    ELSE
        LET category == currencyConvertibility[client.operatingCountry]
            withCountry ==
                [conv[category] EXCEPT
                    !.countries = AddCountry(@, client.operatingCountry)]
        IN  [conv EXCEPT ![category] = CategoryTotalsOf(withCountry, client.currencies, 1)]

\* body of the first data.entries.forEach
AggregateClient(s, client) ==
    IF IsSkipped(client) THEN s
    ELSE [s EXCEPT
            !.clients = Append(@, ClientSummaryOf(client)),
            !.currencyTotals = CurrencyTotalsOf(@, client.currencies, 1),
            !.convertibilityTotals = AddToConvertibilityTotals(@, client)]

RECURSIVE AggregateEntries(_, _, _)
AggregateEntries(s, data, i) ==
    IF i > Len(data) THEN s
    ELSE AggregateEntries(AggregateClient(s, data[i]), data, i + 1)

\* "Calculate RTC metrics after processing all clients"
InitialRTCMetrics(conv) ==
    [potentialUpstreamToRTC |-> conv[Free].totalCash,
     restrictedFunds |-> conv[Restricted].totalCash,
     pendingConversion |-> conv[Partial].totalCash]

(***************************************************************************)
(* Pooling Simulator: second forEach of calculateSummary                   *)
(***************************************************************************)
HasNode(nodes, id) == \E i \in 1..Len(nodes) : nodes[i].id = id

\* nodes.push without the find
PushCountryNode(nodes, id, category) ==
    Append(nodes, [id |-> id, category |-> category])

\* "Add country node if not exists"
AddCountryNode(nodes, id, category) ==
    IF HasNode(nodes, id) THEN nodes
    ELSE Append(nodes, [id |-> id, category |-> category])

RateWithoutFallback(currencyCode, targetCurrency) ==
    IF currencyCode \in DOMAIN fxRates /\ targetCurrency \in DOMAIN fxRates[currencyCode]
    THEN fxRates[currencyCode][targetCurrency]
    ELSE 0

\* fxRates[currencyCode]?.[targetCurrency] || 1   (no table entry is 0)
ConversionRate(currencyCode, targetCurrency) ==
    IF currencyCode \in DOMAIN fxRates /\ targetCurrency \in DOMAIN fxRates[currencyCode]
    THEN fxRates[currencyCode][targetCurrency]
    ELSE RateScale

\* poolingRule.targetCurrency || "USD"
TargetCurrencyOf(poolingRule) ==
    IF poolingRule.targetCurrency = "" THEN "USD" ELSE poolingRule.targetCurrency

\* cashAmount * conversionRate
ConvertedValue(cashAmount, conversionRate) ==
    LET number == ToNumber(cashAmount)
    IN  IF number = NaN THEN NaN ELSE (number * conversionRate) \div RateScale

Unfloored(x) == x

\* Math.max(0.1, x) on the fields a link carries
LinkValue(x) ==
    LET number == ToNumber(x)
    IN  IF number = NaN THEN NaN ELSE Max(MinLinkValue, number)

FlooredAmount(x) == Max(MinLinkValue, x)

\* the amount added to rtcMetrics and rtcTotal: the local, not the link field
MetricAmount(x) == x

AlwaysRTC(poolingRule) == "RTC"

\* the sink a position's link points to
LinkTarget(poolingRule) ==
    IF ~poolingRule.canPool THEN "Restricted" ELSE "RTC"

\* "if (cashAmount <= 0) return": NaN <= 0 is false
NotPooled(cashAmount) ==
    LET number == ToNumber(cashAmount)
    IN  number # NaN /\ number <= 0

DropRepeatedLink(links, link) ==
    IF \E i \in 1..Len(links) :
          links[i].source = link.source /\ links[i].currency = link.currency
    THEN links
    ELSE Append(links, link)

\* links.push(link)
PushLink(links, link) == Append(links, link)

\* body of the inner client.currencies.forEach of the pooling pass
PoolCurrency(s, countryNodeId, category, currency) ==
    LET cashAmount == currency.cashAmount
        poolingRule == poolingRules[category]
    IN  IF NotPooled(cashAmount) THEN s
        ELSE IF ~poolingRule.canPool THEN
            [s EXCEPT
                !.poolingSimulation.links =
                    PushLink(@, [source |-> countryNodeId,
                                 target |-> LinkTarget(poolingRule),
                                 value |-> LinkValue(cashAmount),
                                 currency |-> currency.currencyCode]),
                !.rtcMetrics.restrictedFunds = JsPlus(@, MetricAmount(cashAmount))]
        ELSE IF poolingRule.requiresConversion THEN
            LET targetCurrency == TargetCurrencyOf(poolingRule)
                conversionRate == ConversionRate(currency.currencyCode, targetCurrency)
                convertedValue == ConvertedValue(cashAmount, conversionRate)
            IN  [s EXCEPT
                    !.poolingSimulation.links =
                        PushLink(@, [source |-> countryNodeId,
                                     target |-> LinkTarget(poolingRule),
                                     value |-> LinkValue(cashAmount),
                                     convertedValue |-> LinkValue(convertedValue),
                                     currency |-> currency.currencyCode]),
                    !.rtcMetrics.pendingConversion = JsPlus(@, MetricAmount(cashAmount)),
                    !.poolingSimulation.rtcTotal = JsPlus(@, MetricAmount(convertedValue))]
        ELSE
            [s EXCEPT
                !.poolingSimulation.links =
                    PushLink(@, [source |-> countryNodeId,
                                 target |-> LinkTarget(poolingRule),
                                 value |-> LinkValue(cashAmount),
                                 currency |-> currency.currencyCode]),
                !.rtcMetrics.potentialUpstreamToRTC = JsPlus(@, MetricAmount(cashAmount)),
                !.poolingSimulation.rtcTotal = JsPlus(@, MetricAmount(cashAmount))]

RECURSIVE PoolCurrencies(_, _, _, _, _)
PoolCurrencies(s, countryNodeId, category, currencies, i) ==
    IF i > Len(currencies) THEN s
    ELSE PoolCurrencies(PoolCurrency(s, countryNodeId, category, currencies[i]),
                        countryNodeId, category, currencies, i + 1)

\* body of the second data.entries.forEach
PoolClient(s, client) ==
    IF IsSkipped(client) THEN s
    ELSE IF client.operatingCountry \notin DOMAIN currencyConvertibility THEN s
    ELSE
        LET countryNodeId == client.operatingCountry
            category == currencyConvertibility[client.operatingCountry]
            withNode ==
                [s EXCEPT !.poolingSimulation.nodes =
                              AddCountryNode(@, countryNodeId, category)]
        IN  PoolCurrencies(withNode, countryNodeId, category, client.currencies, 1)

RECURSIVE PoolEntries(_, _, _)
PoolEntries(s, data, i) ==
    IF i > Len(data) THEN s
    ELSE PoolEntries(PoolClient(s, data[i]), data, i + 1)

SinkNodes ==
    <<[id |-> "RTC", category |-> Free], [id |-> "Restricted", category |-> Restricted]>>

NoSinkNodes(nodes) == nodes

\* "Add RTC and Restricted nodes"
AddSinkNodes(nodes) == nodes \o SinkNodes

(***************************************************************************)
(* calculateSummary: the value handed to setSummary                        *)
(***************************************************************************)
OntoPreviousSummary(data) ==
    IF Len(data) = 0 THEN EmptySummary
    ELSE
        LET aggregated == AggregateEntries(summary, data, 1)
            withMetrics ==
                [aggregated EXCEPT
                    !.rtcMetrics = InitialRTCMetrics(aggregated.convertibilityTotals)]
            pooled == PoolEntries(withMetrics, data, 1)
        IN  [pooled EXCEPT !.poolingSimulation.nodes = AddSinkNodes(@)]

\* newSummary starts as a fresh object literal on every call
calculateSummary(data) ==
    IF Len(data) = 0 THEN EmptySummary
    ELSE
        LET aggregated == AggregateEntries(EmptySummary, data, 1)
            withMetrics ==
                [aggregated EXCEPT
                    !.rtcMetrics = InitialRTCMetrics(aggregated.convertibilityTotals)]
            pooled == PoolEntries(withMetrics, data, 1)
        IN  [pooled EXCEPT !.poolingSimulation.nodes = AddSinkNodes(@)]

(***************************************************************************)
(* What-If Calculator: the figures the Cash Pool Analysis and Client       *)
(* Savings sections compute from summary and the three sliders             *)
(***************************************************************************)
\* 100 percent in slider steps of the haircut
HaircutScale == 1000
\* 1 percent in slider steps of the rates
RateSteps == 100

Abs(x) == IF x < 0 THEN 0 - x ELSE x

RECURSIVE SumLinkValue(_, _)
\* links.reduce((sum, link) => sum + link.value, 0)
SumLinkValue(links, i) ==
    IF i > Len(links) THEN 0 ELSE links[i].value + SumLinkValue(links, i + 1)

IsPoolable(link) == link.target = "RTC"

EveryLink(links) == links

\* links.filter(link => link.target === "RTC")
PoolableLinks(links) == SelectSeq(links, IsPoolable)

\* x * (1 - fxHaircut / 100)
AfterHaircut(x) == (x \div HaircutScale) * (HaircutScale - fxHaircut)

\* x * (rate / 100) for a slider rate
InterestOn(x, rate) == ((x \div RateSteps) * rate) \div RateSteps

\* Grand Total row: pooled cash after the haircut
GrandTotal ==
    AfterHaircut(SumLinkValue(PoolableLinks(summary.poolingSimulation.links), 1))

\* Grand Total row: "Credit Interest"
CreditInterest == InterestOn(GrandTotal, blendedCreditRate)

\* Grand Total row: "Debit Interest"
DebitInterest == InterestOn(GrandTotal, usdDebitRate)

\* currencyInfo?.borrowingInterestRate || 0
BookkeptBorrowingRate(code) ==
    IF code \in DOMAIN summary.currencyTotals
    THEN summary.currencyTotals[code].borrowingInterestRate
    ELSE 0

RECURSIVE RowsExpense(_, _)
\* country.currencies.reduce(... totalBorrowing * rate / 100 ...)
RowsExpense(rows, i) ==
    IF i > Len(rows) THEN 0
    ELSE (rows[i].totalBorrowing * BookkeptBorrowingRate(rows[i].currencyCode)) \div 100
            + RowsExpense(rows, i + 1)

RECURSIVE CountriesExpense(_, _)
ExpenseOutsideRestricted(countries, i) ==
    IF i > Len(countries) THEN 0
    ELSE (IF countries[i].country \in {"Vietnam", "India", "China"} THEN 0
          ELSE RowsExpense(countries[i].currencies, 1))
            + CountriesExpense(countries, i + 1)

\* client.countries.reduce(...): every country, whatever its category
CountriesExpense(countries, i) ==
    IF i > Len(countries) THEN 0
    ELSE RowsExpense(countries[i].currencies, 1) + CountriesExpense(countries, i + 1)

RECURSIVE ClientsExpense(_, _)
\* summary.clients.reduce(...) of the Pre-Pooling and Net Savings cards
ClientsExpense(clients, i) ==
    IF i > Len(clients) THEN 0
    ELSE CountriesExpense(clients[i].countries, 1) + ClientsExpense(clients, i + 1)

RECURSIVE RowsBorrowing(_, _)
RowsBorrowing(rows, i) ==
    IF i > Len(rows) THEN 0
    ELSE rows[i].totalBorrowing + RowsBorrowing(rows, i + 1)

NoCountryRestricted(country) == FALSE

\* countryInfo?.category === "Restricted Currencies"
IsRestrictedCountry(country) ==
    /\ country \in DOMAIN currencyConvertibility
    /\ currencyConvertibility[country] = Restricted

RECURSIVE CountriesBorrowing(_, _)
CountriesBorrowing(countries, i) ==
    IF i > Len(countries) THEN 0
    ELSE (IF IsRestrictedCountry(countries[i].country) THEN 0
          ELSE RowsBorrowing(countries[i].currencies, 1))
            + CountriesBorrowing(countries, i + 1)

RECURSIVE ClientsBorrowing(_, _)
\* "Calculate Total Borrowing (excluding restricted)"
ClientsBorrowing(clients, i) ==
    IF i > Len(clients) THEN 0
    ELSE CountriesBorrowing(clients[i].countries, 1) + ClientsBorrowing(clients, i + 1)

\* Pre-Pooling card (shown with the sign reversed)
PrePoolingExpense == ClientsExpense(summary.clients, 1)

\* Post-Pooling card: totalExpense (shown with the sign reversed)
PostPoolingCardExpense ==
    LET totalPooledCash ==
            AfterHaircut(SumLinkValue(PoolableLinks(summary.poolingSimulation.links), 1))
        totalBorrowing == ClientsBorrowing(summary.clients, 1)
        netPosition == totalPooledCash - totalBorrowing
        cashPoolBorrowingCost == InterestOn(totalPooledCash, usdDebitRate)
        additionalBorrowingCost ==
            IF netPosition < 0 THEN InterestOn(Abs(netPosition), usdDebitRate) ELSE 0
    IN  cashPoolBorrowingCost + additionalBorrowingCost

\* Net Savings card: currentExpense
CurrentExpense == ClientsExpense(summary.clients, 1)

\* Net Savings card: postPoolingExpense
PostPoolingExpense ==
    LET totalPooledCash ==
            AfterHaircut(SumLinkValue(PoolableLinks(summary.poolingSimulation.links), 1))
        totalBorrowing == ClientsBorrowing(summary.clients, 1)
        netPosition == totalPooledCash - totalBorrowing
        cashPoolBorrowingCost == InterestOn(totalPooledCash, usdDebitRate)
        additionalBorrowingCost ==
            IF netPosition < 0 THEN InterestOn(Abs(netPosition), usdDebitRate) ELSE 0
    IN  cashPoolBorrowingCost + additionalBorrowingCost

\* Net Savings card: netSavings
NetSavings == CurrentExpense - PostPoolingExpense

PercentageUnguarded(net, expense) == <<net * 100, expense>>

\* currentExpense > 0 ? (netSavings / currentExpense * 100) : 0, as the
\* fraction <<numerator, denominator>>
Percentage(net, expense) ==
    IF expense > 0 THEN <<net * 100, expense>> ELSE <<0, 1>>

\* Net Savings card: savingsPercentage
SavingsPercentage == Percentage(NetSavings, CurrentExpense)

(***************************************************************************)
(* Inputs: bounded entry lists                                             *)
(***************************************************************************)
Position(code, cash, cashRate, borrowing, borrowingRate, tenor) ==
    [currencyCode |-> code,
     cashAmount |-> cash,
     cashInterestRate |-> cashRate,
     borrowingAmount |-> borrowing,
     borrowingInterestRate |-> borrowingRate,
     borrowingTenor |-> tenor]

RECURSIVE SumTo(_, _)
\* ks[1] + ... + ks[i]
SumTo(ks, i) == IF i = 0 THEN 0 ELSE ks[i] + SumTo(ks, i - 1)

\* the numbers of positions of at most MaxClients entries holding at most
\* MaxPositions positions in all
Shapes ==
    {ks \in UNION {[1..n -> 0..MaxPositions] : n \in 0..MaxClients} :
        SumTo(ks, Len(ks)) <= MaxPositions}

\* the entry list of heads hs whose entry i holds the next ks[i] of the
\* positions ps
EntryList(hs, ks, ps) ==
    [i \in 1..Len(ks) |->
        [clientName |-> hs[i][1],
         operatingCountry |-> hs[i][2],
         currencies |-> SubSeq(ps, SumTo(ks, i - 1) + 1, SumTo(ks, i))]]

\* entries is one of the bounded entry lists over the heads and positions
EntriesFrom(heads, positions) ==
    \E ks \in Shapes :
        \E hs \in [1..Len(ks) -> heads] :
            \E ps \in [1..SumTo(ks, Len(ks)) -> positions] :
                entries = EntryList(hs, ks, ps)

\* Routed inputs: one known country per category; cash 0, 0.05 (below the
\* 0.1 floor) and 1.0 in micro-units; "MYR" has the rate 0.21 to USD and
\* "USD" has no rate to USD
RouteHeads == {<<"Acme", c>> : c \in {"China", "Malaysia", "Singapore"}}

RoutePositions ==
    {Position(code, cash, 0, 0, 0, "Short Term") :
        code \in {"MYR", "USD"}, cash \in {0, 50000, 1000000}}

\* Skipped inputs: a missing name, a missing country, an unknown country,
\* next to a known one; cash -1.0 and 1.0; "" is no key of fxRates
SkipHeads ==
    {<<"", "China">>, <<"Acme", "">>, <<"Acme", "Atlantis">>, <<"Acme", "Malaysia">>}

SkipPositions ==
    {Position(code, cash, 0, 0, 0, "Short Term") :
        code \in {"", "MYR"}, cash \in {0 - 1000000, 1000000}}

\* useState(0), useState(2.5), useState(5.0)
DefaultSliders ==
    /\ fxHaircut = 0
    /\ blendedCreditRate = 250
    /\ usdDebitRate = 500

\* useState of filters, selectedCurrencies and currencySelectionOpen; no
\* toast has been shown
NoFilters ==
    [clientName |-> "", country |-> "_all", category |-> "_all", currency |-> "_all"]

NoToast == [title |-> "", description |-> ""]

DefaultControls ==
    /\ filters = NoFilters
    /\ selectedCurrencies = <<>>
    /\ currencySelectionOpen = <<>>
    /\ toast = NoToast
    /\ edits = 0

\* localStorage.getItem gives null for an item never set
NullItem == [kind |-> "null", clients |-> <<>>, entries |-> <<>>]

\* useState of the dialogs; a fresh browser profile
DefaultStore ==
    /\ clientName = ""
    /\ saveDialogOpen = FALSE
    /\ loadDialogOpen = FALSE
    /\ savedClients = <<>>
    /\ clientStore = NullItem
    /\ liquidityData = NullItem
    /\ storage = "ok"
    /\ tabs = <<>>

Init ==
    /\ \/ EntriesFrom(RouteHeads, RoutePositions)
       \/ EntriesFrom(SkipHeads, SkipPositions)
    /\ summary = EmptySummary
    /\ pc = "input"
    /\ DefaultSliders
    /\ DefaultControls
    /\ DefaultStore

(***************************************************************************)
(* The first calculation of the effect: calculateSummary(form.getValues())  *)
(* then setSummary                                                         *)
(***************************************************************************)
CalculateSummary ==
    /\ summary' = calculateSummary(entries)
    /\ pc' = "done"
    /\ UNCHANGED <<entries, sliderVars, controlVars, storeVars, edits>>

Next == CalculateSummary

Spec == Init /\ [][Next]_vars

(***************************************************************************)
(* The form.watch callback: calculateSummary(value) on a notification that *)
(* leaves the entries as they are                                          *)
(***************************************************************************)
WatchCallback ==
    /\ pc # "input"
    /\ summary' = calculateSummary(entries)
    /\ pc' = "again"
    /\ UNCHANGED <<entries, sliderVars, controlVars, storeVars, edits>>

InitRerun ==
    /\ EntriesFrom(RouteHeads, RoutePositions)
    /\ summary = EmptySummary
    /\ pc = "input"
    /\ DefaultSliders
    /\ DefaultControls
    /\ DefaultStore

NextRerun ==
    \/ CalculateSummary
    \/ WatchCallback

SpecRerun == InitRerun /\ [][NextRerun]_vars

(***************************************************************************)
(* Inputs of the aggregation properties: amounts with borrowing, and       *)
(* interest rates with tenors                                              *)
(***************************************************************************)
\* amounts: cash 2.0 with borrowing 1.0 on "", "MYR" and "USD", and cash
\* 1.0 without borrowing on "MYR"
AggHeads ==
    {<<"Acme", "China">>, <<"", "China">>, <<"Acme", "">>, <<"Acme", "Atlantis">>}

AggPositions ==
    {Position(code, 2000000, 0, 1000000, 0, "Short Term") : code \in {"", "MYR", "USD"}}
        \cup {Position("MYR", 1000000, 0, 0, 0, "Short Term")}

\* rates: cash rate 0 or 2 and borrowing rate 1 or 3, so that the higher
\* cash rate and the higher borrowing rate can sit on different positions
RateHeads == {<<"Acme", "China">>, <<"", "China">>}

RatePositions ==
    {Position(code, 1000000, r[1], 1000000, r[2], tenor) :
        code \in {"MYR", "USD"},
        r \in {<<0, 3>>, <<2, 1>>},
        tenor \in {"Short Term", "Long Term"}}

InitAgg ==
    /\ \/ EntriesFrom(AggHeads, AggPositions)
       \/ EntriesFrom(RateHeads, RatePositions)
    /\ summary = EmptySummary
    /\ pc = "input"
    /\ DefaultSliders
    /\ DefaultControls
    /\ DefaultStore

SpecAgg == InitAgg /\ [][Next]_vars

(***************************************************************************)
(* Inputs of the coercion properties: amount and rate fields holding texts *)
(***************************************************************************)
\* cash as the number 1.0, as the text of 1.0, as a malformed text and as
\* the empty text, in a country of each category
RawCashPositions ==
    {Position("MYR", cash, 0, 0, 0, "Short Term") :
        cash \in {1000000, NumericText(1000000), MalformedText, EmptyText}}

\* cash 2.0, borrowing 1.0, cash rate 2 and borrowing rate 3, each of them
\* also malformed
RawFieldHeads == {<<"Acme", "China">>, <<"Acme", "Singapore">>}

RawFieldPositions ==
    {Position("MYR", cash, r[1], borrowing, r[2], "Short Term") :
        cash \in {2000000, MalformedText},
        borrowing \in {1000000, MalformedText},
        r \in {<<2, 3>>, <<MalformedText, 3>>, <<2, MalformedText>>}}

InitRaw ==
    /\ \/ EntriesFrom(RouteHeads, RawCashPositions)
       \/ EntriesFrom(RawFieldHeads, RawFieldPositions)
    /\ summary = EmptySummary
    /\ pc = "input"
    /\ DefaultSliders
    /\ DefaultControls
    /\ DefaultStore

SpecRaw == InitRaw /\ [][Next]_vars

(***************************************************************************)
(* The sliders of the Cash Pool Analysis section, rendered once the        *)
(* summary holds a client                                                  *)
(***************************************************************************)
Haircuts == {0, 100}
CreditRates == {100, 250}
DebitRates == {300, 500}

SummaryShown == Len(summary.clients) > 0

\* a haircut slider that also puts the credit rate back to its default
SetFxHaircutResetRate ==
    /\ SummaryShown
    /\ \E val \in Haircuts : fxHaircut' = val
    /\ blendedCreditRate' = 250
    /\ UNCHANGED <<entries, summary, pc, usdDebitRate>>
    /\ UNCHANGED <<controlVars, storeVars, edits>>

\* onValueChange of the FX haircut slider
SetFxHaircut ==
    /\ SummaryShown
    /\ \E val \in Haircuts : fxHaircut' = val
    /\ UNCHANGED <<entries, summary, pc, blendedCreditRate, usdDebitRate>>
    /\ UNCHANGED <<controlVars, storeVars, edits>>

\* onValueChange of the blended credit rate slider
SetBlendedCreditRate ==
    /\ SummaryShown
    /\ \E val \in CreditRates : blendedCreditRate' = val
    /\ UNCHANGED <<entries, summary, pc, fxHaircut, usdDebitRate>>
    /\ UNCHANGED <<controlVars, storeVars, edits>>

\* onValueChange of the USD debit rate slider
SetUsdDebitRate ==
    /\ SummaryShown
    /\ \E val \in DebitRates : usdDebitRate' = val
    /\ UNCHANGED <<entries, summary, pc, fxHaircut, blendedCreditRate>>
    /\ UNCHANGED <<controlVars, storeVars, edits>>

\* cash 1.0, borrowing 2.0 at 3 percent, and borrowing 1.0 on a position
\* without currency code, in a Restricted, a Freely Convertible and an
\* unknown country
WhatIfHeads == {<<"Acme", c>> : c \in {"China", "Singapore", "Atlantis"}}

WhatIfPositions ==
    {Position("MYR", 1000000, 0, 0, 0, "Short Term"),
     Position("MYR", 0, 0, 2000000, 3, "Short Term"),
     Position("", 0, 0, 1000000, 3, "Short Term")}

\* borrowing 1.0 at 1 and at 3 percent, borrowing -1.0, and borrowing on a
\* position without currency code
ExpenseHeads == {<<"Acme", c>> : c \in {"China", "Atlantis"}}

ExpensePositions ==
    {Position("MYR", 0, 0, 1000000, 1, "Short Term"),
     Position("MYR", 0, 0, 1000000, 3, "Short Term"),
     Position("MYR", 0, 0, 0 - 1000000, 3, "Short Term"),
     Position("", 0, 0, 1000000, 3, "Short Term")}

InitWhatIf ==
    /\ \/ EntriesFrom(WhatIfHeads, WhatIfPositions)
       \/ EntriesFrom(ExpenseHeads, ExpensePositions)
    /\ summary = EmptySummary
    /\ pc = "input"
    /\ DefaultSliders
    /\ DefaultControls
    /\ DefaultStore

NextWhatIf ==
    \/ CalculateSummary
    \/ SetFxHaircut
    \/ SetBlendedCreditRate
    \/ SetUsdDebitRate

SpecWhatIf == InitWhatIf /\ [][NextWhatIf]_vars

(***************************************************************************)
(* The filters of the summary table, rendered with the summary             *)
(***************************************************************************)
\* the values picked in the model for each filter
FilterValues ==
    [clientName |-> {"", "acme"},
     country |-> {"_all", "China"},
     category |-> {"_all", Restricted},
     currency |-> {"_all", "MYR"}]

\* onChange / onValueChange of a filter: setFilters(prev => ({...prev, [field]: value}))
SetFilter ==
    /\ SummaryShown
    /\ \E field \in DOMAIN FilterValues :
          \E value \in FilterValues[field] :
              filters' = [filters EXCEPT ![field] = value]
    /\ UNCHANGED <<entries, summary, pc, sliderVars, storeVars, edits>>
    /\ UNCHANGED <<selectedCurrencies, currencySelectionOpen, toast>>

clearFilters ==
    /\ SummaryShown
    /\ filters' = NoFilters
    /\ UNCHANGED <<entries, summary, pc, sliderVars, storeVars, edits>>
    /\ UNCHANGED <<selectedCurrencies, currencySelectionOpen, toast>>

\* cash 1.0 with borrowing 2.0 at 3 percent, in a Restricted and a Freely
\* Convertible country
FrameHeads == {<<"Acme", c>> : c \in {"China", "Singapore"}}

FramePositions == {Position("MYR", 1000000, 0, 2000000, 3, "Short Term")}

InitFrame ==
    /\ EntriesFrom(FrameHeads, FramePositions)
    /\ summary = EmptySummary
    /\ pc = "input"
    /\ DefaultSliders
    /\ DefaultControls
    /\ DefaultStore

NextFrame ==
    \/ CalculateSummary
    \/ SetFxHaircut
    \/ SetBlendedCreditRate
    \/ SetUsdDebitRate
    \/ SetFilter
    \/ clearFilters

SpecFrame == InitFrame /\ [][NextFrame]_vars

(***************************************************************************)
(* The handlers of the form.  setValue, reset, append, remove and a        *)
(* field's onChange hand the new values to the form.watch callback, which  *)
(* runs calculateSummary on them.                                          *)
(***************************************************************************)
MaxEdits == 2

\* useForm defaultValues, and the values handleReset resets to
defaultValues ==
    <<[clientName |-> "",
       operatingCountry |-> "",
       currencies |-> <<Position("", 0, 0, 0, 0, "Short Term")>>]>>

\* the sample of data/initial-data, amounts in units of 10^6 and rates in
\* tenths of a percent
initialData ==
    <<[clientName |-> "APAC Freely Convertible",
       operatingCountry |-> "Singapore",
       currencies |-> <<Position("USD", 1000000, 25, 500000, 35, "Short Term"),
                        Position("SGD", 750000, 18, 250000, 28, "Short Term")>>],
      [clientName |-> "China Restricted",
       operatingCountry |-> "China",
       currencies |-> <<Position("CNY", 2000000, 15, 1000000, 25, "Long Term"),
                        Position("USD", 1500000, 23, 750000, 33, "Short Term")>>],
      [clientName |-> "Malaysia Partially Convertible",
       operatingCountry |-> "Malaysia",
       currencies |-> <<Position("MYR", 3000000, 30, 1500000, 40, "Short Term"),
                        Position("USD", 800000, 24, 400000, 34, "Long Term")>>],
      [clientName |-> "India Restricted",
       operatingCountry |-> "India",
       currencies |-> <<Position("INR", 4000000, 45, 2000000, 55, "Short Term"),
                        Position("USD", 1200000, 22, 600000, 32, "Long Term")>>]>>

\* selectedCurrencies[index] || []
SelectedOf(index) ==
    IF index \in DOMAIN selectedCurrencies THEN selectedCurrencies[index] ELSE <<>>

\* currencySelectionOpen[index] as a condition
IsOpen(index) ==
    index \in DOMAIN currencySelectionOpen /\ currencySelectionOpen[index]

\* { ...prev, [index]: value }
Spread(prev, index, value) ==
    [k \in DOMAIN prev \cup {index} |-> IF k = index THEN value ELSE prev[k]]

\* array.filter((_, i) => i !== index)
WithoutIndex(array, index) ==
    [k \in 1..(Len(array) - 1) |-> IF k < index THEN array[k] ELSE array[k + 1]]

\* array.filter((c) => c !== x)
WithoutValue(array, x) == SelectSeq(array, LAMBDA c : c # x)

\* the form takes the values without telling its watchers
SetSilently(values) ==
    /\ entries' = values
    /\ UNCHANGED <<summary, pc>>

\* the form takes the values and the form.watch callback runs
\* calculateSummary(value), whose setSummary is the last of the handler
SetValues(values) ==
    /\ entries' = values
    /\ summary' = calculateSummary(values)
    /\ pc' = "done"

\* a handler runs after the first calculation, MaxEdits times at most
Handler ==
    /\ pc # "input"
    /\ edits < MaxEdits
    /\ edits' = edits + 1

\* the texts typed in the model: a client name, an amount of 1.0
TypedNames == {"", "Acme"}
TypedAmounts == {NumericText(1000000)}

\* field.onChange of the client name input
ChangeClientName ==
    /\ Handler
    /\ \E index \in 1..Len(entries) :
          \E value \in TypedNames :
              SetValues([entries EXCEPT ![index].clientName = value])
    /\ UNCHANGED <<sliderVars, controlVars, storeVars>>

\* field.onChange of the cash and borrowing amount inputs, shown with the
\* client's currencies while its selection is closed
ChangeAmount ==
    /\ Handler
    /\ \E index \in 1..Len(entries) :
          /\ ~IsOpen(index)
          /\ \E currencyIndex \in 1..Len(entries[index].currencies) :
                \E value \in TypedAmounts :
                    \/ SetValues([entries EXCEPT
                           ![index].currencies[currencyIndex].cashAmount = value])
                    \/ SetValues([entries EXCEPT
                           ![index].currencies[currencyIndex].borrowingAmount = value])
    /\ UNCHANGED <<sliderVars, controlVars, storeVars>>

\* "Add Another Client": append of useFieldArray
AppendClient ==
    /\ Handler
    /\ Len(entries) < MaxClients
    /\ SetValues(Append(entries,
           [clientName |-> "", operatingCountry |-> "", currencies |-> <<>>]))
    /\ UNCHANGED <<sliderVars, controlVars, storeVars>>

\* the bin button of a client, shown while fields.length > 1: remove of
\* useFieldArray
RemoveClient ==
    /\ Handler
    /\ Len(entries) > 1
    /\ \E clientIndex \in 1..Len(entries) :
          SetValues(WithoutIndex(entries, clientIndex))
    /\ UNCHANGED <<sliderVars, controlVars, storeVars>>

\* the countries picked in the model
PickedCountries == {"China", "Malaysia"}

handleCountryChange ==
    /\ Handler
    /\ \E index \in 1..Len(entries) :
          \E value \in PickedCountries :
              /\ SetValues([entries EXCEPT ![index].operatingCountry = value,
                                           ![index].currencies = <<>>])
              /\ currencySelectionOpen' = Spread(currencySelectionOpen, index, TRUE)
              /\ selectedCurrencies' = Spread(selectedCurrencies, index, <<>>)
    /\ UNCHANGED <<sliderVars, storeVars, filters, toast>>

\* the codes ticked in the model
TickedCodes == {"MYR", "USD"}

\* a checkbox of the open currency selection
toggleCurrency ==
    /\ Handler
    /\ \E index \in 1..Len(entries) :
          /\ IsOpen(index)
          /\ \E currencyCode \in TickedCodes :
                LET current == SelectedOf(index)
                IN  selectedCurrencies' =
                        IF Contains(current, currencyCode)
                        THEN Spread(selectedCurrencies, index,
                                    WithoutValue(current, currencyCode))
                        ELSE Spread(selectedCurrencies, index,
                                    Append(current, currencyCode))
    /\ UNCHANGED <<entries, summary, pc, sliderVars, storeVars>>
    /\ UNCHANGED <<filters, currencySelectionOpen, toast>>

\* selectedCurrencies[index].map((code) => ({ currencyCode: code, cashAmount: 0, ... }))
NewCurrencies(codes) ==
    [k \in 1..Len(codes) |-> Position(codes[k], 0, 0, 0, 0, "Short Term")]

\* "Confirm Currencies" of the open currency selection
handleCurrencySelection ==
    /\ Handler
    /\ \E index \in 1..Len(entries) :
          /\ IsOpen(index)
          /\ IF Len(SelectedOf(index)) = 0
             THEN /\ toast' = [title |-> "No currencies selected",
                               description |-> "Please select at least one currency"]
                  /\ UNCHANGED <<entries, summary, pc, currencySelectionOpen>>
             ELSE /\ SetValues([entries EXCEPT ![index].currencies =
                          NewCurrencies(SelectedOf(index))])
                  /\ currencySelectionOpen' = Spread(currencySelectionOpen, index, FALSE)
                  /\ UNCHANGED toast
    /\ UNCHANGED <<sliderVars, storeVars, filters, selectedCurrencies>>

\* currentCurrencies.filter((_, i) => i !== currencyIndex), whatever the length
RemoveUnguarded(currentCurrencies, currencyIndex) ==
    [removed |-> TRUE, currencies |-> WithoutIndex(currentCurrencies, currencyIndex)]

\* the branch removeCurrency takes and the value it sets
RemoveGuarded(currentCurrencies, currencyIndex) ==
    IF Len(currentCurrencies) > 1
    THEN [removed |-> TRUE, currencies |-> WithoutIndex(currentCurrencies, currencyIndex)]
    ELSE [removed |-> FALSE, currencies |-> currentCurrencies]

\* the X of a position of a client whose selection is closed
removeCurrency ==
    /\ Handler
    /\ \E clientIndex \in 1..Len(entries) :
          /\ ~IsOpen(clientIndex)
          /\ \E currencyIndex \in 1..Len(entries[clientIndex].currencies) :
                LET result == RemoveGuarded(entries[clientIndex].currencies, currencyIndex)
                IN  IF result.removed
                    THEN /\ SetValues([entries EXCEPT
                                ![clientIndex].currencies = result.currencies])
                         /\ UNCHANGED toast
                    ELSE /\ toast' = [title |-> "Cannot remove",
                                      description |-> "At least one currency is required"]
                         /\ UNCHANGED <<entries, summary, pc>>
    /\ UNCHANGED <<sliderVars, storeVars, filters, selectedCurrencies, currencySelectionOpen>>

\* "Add Currency", shown with the client's currencies while its selection
\* is closed
addCurrency ==
    /\ Handler
    /\ \E clientIndex \in 1..Len(entries) :
          /\ ~IsOpen(clientIndex)
          /\ Len(entries[clientIndex].currencies) > 0
          /\ currencySelectionOpen' = Spread(currencySelectionOpen, clientIndex, TRUE)
    /\ UNCHANGED <<entries, summary, pc, sliderVars, storeVars>>
    /\ UNCHANGED <<filters, selectedCurrencies, toast>>

handleReset ==
    /\ Handler
    /\ liquidityData' = NullItem
    /\ SetValues(defaultValues)
    /\ toast' = [title |-> "Form reset", description |-> "All data has been cleared"]
    /\ UNCHANGED <<sliderVars, filters, selectedCurrencies, currencySelectionOpen>>
    /\ UNCHANGED <<clientName, saveDialogOpen, loadDialogOpen, savedClients,
                   clientStore, storage, tabs>>

handleLoadSample ==
    /\ Handler
    /\ SetValues(initialData)
    /\ toast' = [title |-> "Sample data loaded",
                 description |-> "Initial sample data has been loaded into the form"]
    /\ UNCHANGED <<sliderVars, storeVars, filters, selectedCurrencies, currencySelectionOpen>>

\* "Load Configuration" and "Close" of the load dialog
SetLoadDialogOpen ==
    /\ Handler
    /\ \E open \in BOOLEAN : loadDialogOpen' = open
    /\ UNCHANGED <<entries, summary, pc, sliderVars, controlVars>>
    /\ UNCHANGED <<clientName, saveDialogOpen, savedClients, clientStore,
                   liquidityData, storage, tabs>>

\* "Load" of a row of the load dialog
handleLoadClient ==
    /\ Handler
    /\ loadDialogOpen
    /\ \E k \in 1..Len(savedClients) :
          /\ SetValues(savedClients[k].data.entries)
          /\ toast' = [title |-> "Success", description |-> savedClients[k].name]
    /\ loadDialogOpen' = FALSE
    /\ UNCHANGED <<sliderVars, filters, selectedCurrencies, currencySelectionOpen>>
    /\ UNCHANGED <<clientName, saveDialogOpen, savedClients, clientStore,
                   liquidityData, storage, tabs>>

(***************************************************************************)
(* src/lib/storage.ts: the named configurations kept in localStorage.      *)
(* storage is "ok", "noWindow" (typeof window === 'undefined'), "denied"   *)
(* (getItem and setItem throw) or "full" (setItem throws).  An item is     *)
(* null, a text JSON.parse throws on ("corrupt"), or the JSON of a value.  *)
(***************************************************************************)
\* JSON.parse(JSON.stringify(v)) of a field value
JsonValue(v) == IF v = NaN THEN JsonNull ELSE v

\* JSON.parse(JSON.stringify(data)) of FormValues
JsonData(data) ==
    [entries |->
        [i \in 1..Len(data.entries) |->
            [clientName |-> data.entries[i].clientName,
             operatingCountry |-> data.entries[i].operatingCountry,
             currencies |->
                 [j \in 1..Len(data.entries[i].currencies) |->
                     LET currency == data.entries[i].currencies[j]
                     IN  Position(currency.currencyCode,
                                  JsonValue(currency.cashAmount),
                                  JsonValue(currency.cashInterestRate),
                                  JsonValue(currency.borrowingAmount),
                                  JsonValue(currency.borrowingInterestRate),
                                  currency.borrowingTenor)]]]]

\* the item JSON.stringify(store) leaves under CLIENT_STORE_KEY
StoreItem(store) ==
    [kind |-> "json",
     clients |-> [k \in 1..Len(store.clients) |->
                     [name |-> store.clients[k].name,
                      data |-> JsonData(store.clients[k].data),
                      savedAt |-> store.clients[k].savedAt]],
     entries |-> <<>>]

\* the ClientStore getClientStore returns for the item under CLIENT_STORE_KEY
getClientStore(item) ==
    IF storage \in {"ok", "full"} /\ item.kind = "json"
    THEN [clients |-> item.clients]
    ELSE [clients |-> <<>>]

\* store.clients.findIndex(c => c.name === name), from 1, 0 for none
FindIndex(clients, name) ==
    IF \E k \in 1..Len(clients) : clients[k].name = name
    THEN CHOOSE k \in 1..Len(clients) :
             /\ clients[k].name = name
             /\ \A j \in 1..(k - 1) : clients[j].name # name
    ELSE 0

\* store.clients.push(savedClient) without the findIndex
PushSavedClient(store, name, data, savedAt) ==
    [clients |-> Append(store.clients,
                        [name |-> name, data |-> data, savedAt |-> savedAt])]

\* the store saveToClientStore hands to JSON.stringify
WithSavedClient(store, name, data, savedAt) ==
    LET existingClientIndex == FindIndex(store.clients, name)
        savedClient == [name |-> name, data |-> data, savedAt |-> savedAt]
    IN  IF existingClientIndex >= 1
        THEN [clients |-> [store.clients EXCEPT ![existingClientIndex] = savedClient]]
        ELSE [clients |-> Append(store.clients, savedClient)]

\* a setItem that stores the text and then throws
SetItemThenThrow(store) ==
    [success |-> storage = "ok", item |-> StoreItem(store)]

\* localStorage.setItem(CLIENT_STORE_KEY, JSON.stringify(store)) inside the
\* try: the value returned and the item left in localStorage
SetItem(store) ==
    IF storage = "ok"
    THEN [success |-> TRUE, item |-> StoreItem(store)]
    ELSE [success |-> FALSE, item |-> clientStore]

saveToClientStore(name, data, savedAt) ==
    IF storage = "noWindow"
    THEN [success |-> FALSE, item |-> clientStore]
    ELSE SetItem(WithSavedClient(getClientStore(clientStore), name, data, savedAt))

\* store.clients.filter(c => c.name !== clientName)
WithoutClient(store, name) ==
    [clients |-> SelectSeq(store.clients, LAMBDA c : c.name # name)]

deleteFromClientStore(name) ==
    IF storage = "noWindow"
    THEN [success |-> FALSE, item |-> clientStore]
    ELSE SetItem(WithoutClient(getClientStore(clientStore), name))

(***************************************************************************)
(* The effects of the first render: setSavedClients(getClientStore()       *)
(* .clients), then calculateSummary(form.getValues())                      *)
(***************************************************************************)
Mount ==
    /\ pc = "input"
    /\ savedClients' = getClientStore(clientStore).clients
    /\ summary' = calculateSummary(entries)
    /\ pc' = "done"
    /\ UNCHANGED <<entries, sliderVars, controlVars, edits>>
    /\ UNCHANGED <<clientName, saveDialogOpen, loadDialogOpen, clientStore,
                   liquidityData, storage, tabs>>

(***************************************************************************)
(* The form in use: the form as constructed or as a loaded configuration   *)
(* left it, with a currency selection closed or open, in a fresh or a used *)
(* browser profile                                                         *)
(***************************************************************************)
\* one client holding MYR 1.0 typed in, and two clients of which the first
\* holds MYR 1.0 with borrowing 2.0 and USD 2.0
OneClientForm ==
    <<[clientName |-> "Acme",
       operatingCountry |-> "China",
       currencies |-> <<Position("MYR", NumericText(1000000), 0, 0, 0, "Short Term")>>]>>

TwoClientForm ==
    <<[clientName |-> "Acme",
       operatingCountry |-> "Malaysia",
       currencies |-> <<Position("MYR", 1000000, 2, 2000000, 3, "Long Term"),
                        Position("USD", 2000000, 0, 0, 0, "Short Term")>>],
      [clientName |-> "Beta",
       operatingCountry |-> "Singapore",
       currencies |-> <<Position("USD", 1000000, 0, 0, 0, "Short Term")>>]>>

StartingForms == {defaultValues, OneClientForm, TwoClientForm}

\* the selection of client 1: never opened, as it is in the form as
\* constructed, and in a loaded form also open and empty, open with MYR
\* ticked, closed after MYR and USD were confirmed
StartingSelections ==
    {<<<<>>, <<>>>>,
     <<<<TRUE>>, <<<<>>>>>>,
     <<<<TRUE>>, <<<<"MYR">>>>>>,
     <<<<FALSE>>, <<<<"MYR", "USD">>>>>>}

\* a profile in which a configuration was saved and the form submitted
UsedStore ==
    StoreItem([clients |-> <<[name |-> "saved", data |-> [entries |-> TwoClientForm],
                              savedAt |-> "yesterday"]>>])

UsedData == [kind |-> "json", clients |-> <<>>, entries |-> OneClientForm]

InitForm ==
    /\ entries \in StartingForms
    /\ summary = EmptySummary
    /\ pc = "input"
    /\ DefaultSliders
    /\ filters = NoFilters
    /\ toast = NoToast
    /\ edits = 0
    /\ \E selection \in StartingSelections :
          /\ entries = defaultValues => selection = <<<<>>, <<>>>>
          /\ currencySelectionOpen = selection[1]
          /\ selectedCurrencies = selection[2]
    /\ clientName = ""
    /\ saveDialogOpen = FALSE
    /\ loadDialogOpen = FALSE
    /\ savedClients = <<>>
    /\ \/ clientStore = NullItem /\ liquidityData = NullItem
       \/ clientStore = UsedStore /\ liquidityData = UsedData
    /\ storage = "ok"
    /\ tabs = <<>>

NextForm ==
    \/ Mount
    \/ ChangeClientName
    \/ ChangeAmount
    \/ AppendClient
    \/ RemoveClient
    \/ handleCountryChange
    \/ toggleCurrency
    \/ handleCurrencySelection
    \/ removeCurrency
    \/ addCurrency
    \/ handleReset
    \/ handleLoadSample
    \/ SetLoadDialogOpen
    \/ handleLoadClient

SpecForm == InitForm /\ [][NextForm]_vars

(***************************************************************************)
(* The save and load dialogs                                               *)
(***************************************************************************)
\* the names typed in the model; " " is the one that is blank after trim()
TypedStoreNames == {"", " ", "A", "B"}

\* clientName.trim(), on the names of the model
Trim(name) == IF name = " " THEN "" ELSE name

\* new Date().toISOString() of a save of this session
Times == {"today"}

\* "Save Configuration" and "Cancel" of the save dialog
SetSaveDialogOpen ==
    /\ Handler
    /\ \E open \in BOOLEAN : saveDialogOpen' = open
    /\ UNCHANGED <<entries, summary, pc, sliderVars, controlVars>>
    /\ UNCHANGED <<clientName, loadDialogOpen, savedClients, clientStore,
                   liquidityData, storage, tabs>>

\* onChange of the name input of the save dialog
SetClientName ==
    /\ Handler
    /\ saveDialogOpen
    /\ \E value \in TypedStoreNames : clientName' = value
    /\ UNCHANGED <<entries, summary, pc, sliderVars, controlVars>>
    /\ UNCHANGED <<saveDialogOpen, loadDialogOpen, savedClients, clientStore,
                   liquidityData, storage, tabs>>

\* "Save" of the save dialog
handleSaveClient ==
    /\ Handler
    /\ saveDialogOpen
    /\ IF Trim(clientName) = ""
       THEN /\ toast' = [title |-> "Error", description |-> "Please enter a client name"]
            /\ UNCHANGED <<clientName, saveDialogOpen, savedClients, clientStore>>
       ELSE \E savedAt \in Times :
                LET result == saveToClientStore(clientName, [entries |-> entries], savedAt)
                IN  /\ clientStore' = result.item
                    /\ IF result.success
                       THEN /\ savedClients' = getClientStore(result.item).clients
                            /\ saveDialogOpen' = FALSE
                            /\ clientName' = ""
                            /\ toast' = [title |-> "Success",
                                         description |->
                                             "Client configuration saved successfully"]
                       ELSE /\ toast' = [title |-> "Error",
                                         description |->
                                             "Failed to save client configuration"]
                            /\ UNCHANGED <<clientName, saveDialogOpen, savedClients>>
    /\ UNCHANGED <<entries, summary, pc, sliderVars>>
    /\ UNCHANGED <<filters, selectedCurrencies, currencySelectionOpen>>
    /\ UNCHANGED <<loadDialogOpen, liquidityData, storage, tabs>>

\* "Delete" of a row of the load dialog
handleDeleteClient ==
    /\ Handler
    /\ loadDialogOpen
    /\ \E k \in 1..Len(savedClients) :
          LET result == deleteFromClientStore(savedClients[k].name)
          IN  /\ clientStore' = result.item
              /\ IF result.success
                 THEN /\ savedClients' = getClientStore(result.item).clients
                      /\ toast' = [title |-> "Success",
                                   description |->
                                       "Client configuration deleted successfully"]
                 ELSE /\ toast' = [title |-> "Error",
                                   description |->
                                       "Failed to delete client configuration"]
                      /\ UNCHANGED savedClients
    /\ UNCHANGED <<entries, summary, pc, sliderVars>>
    /\ UNCHANGED <<filters, selectedCurrencies, currencySelectionOpen>>
    /\ UNCHANGED <<clientName, saveDialogOpen, loadDialogOpen, liquidityData, storage, tabs>>

\* an item JSON.parse throws on
CorruptItem == [kind |-> "corrupt", clients |-> <<>>, entries |-> <<>>]

\* the stores earlier sessions left: none, an unreadable one, and stores
\* holding "A", or "A" and "B" in either order, saved yesterday
StartingStores ==
    LET SavedA == [name |-> "A", data |-> [entries |-> OneClientForm],
                   savedAt |-> "yesterday"]
        SavedB == [name |-> "B", data |-> [entries |-> TwoClientForm],
                   savedAt |-> "yesterday"]
    IN  {NullItem, CorruptItem,
         StoreItem([clients |-> <<SavedA>>]),
         StoreItem([clients |-> <<SavedA, SavedB>>]),
         StoreItem([clients |-> <<SavedB, SavedA>>])}

\* the save dialog closed, or open with a name typed
StartingDialogs ==
    {<<FALSE, "">>} \cup {<<TRUE, name>> : name \in TypedStoreNames}

InitStore ==
    /\ entries \in {OneClientForm, TwoClientForm}
    /\ summary = EmptySummary
    /\ pc = "input"
    /\ DefaultSliders
    /\ DefaultControls
    /\ \E dialog \in StartingDialogs :
          /\ saveDialogOpen = dialog[1]
          /\ clientName = dialog[2]
    /\ loadDialogOpen \in BOOLEAN
    /\ savedClients = <<>>
    /\ clientStore \in StartingStores
    /\ liquidityData = NullItem
    /\ storage \in {"ok", "noWindow", "denied", "full"}
    /\ tabs = <<>>

NextStore ==
    \/ Mount
    \/ SetSaveDialogOpen
    \/ SetClientName
    \/ handleSaveClient
    \/ SetLoadDialogOpen
    \/ handleLoadClient
    \/ handleDeleteClient

SpecStore == InitStore /\ [][NextStore]_vars

(***************************************************************************)
(* Two sessions on one localStorage                                        *)
(*                                                                         *)
(* Each tab runs saveToClientStore once. Its getItem and its setItem are   *)
(* separate calls on the shared storage, so calls of the other tab can     *)
(* fall between them. tabs[t].store is the store object of tab t's call.   *)
(***************************************************************************)
Tabs == {1, 2}

\* const store = getClientStore()
TabGetClientStore(t) ==
    /\ tabs[t].pc = "start"
    /\ tabs' = [tabs EXCEPT ![t].pc = "read",
                            ![t].store = getClientStore(clientStore)]
    /\ UNCHANGED <<entries, summary, pc, sliderVars, controlVars, edits>>
    /\ UNCHANGED <<clientName, saveDialogOpen, loadDialogOpen, savedClients,
                   clientStore, liquidityData, storage>>

\* findIndex, replace or push, setItem and the value returned
TabSetItem(t) ==
    /\ tabs[t].pc = "read"
    /\ \E savedAt \in Times :
          LET result == SetItem(WithSavedClient(tabs[t].store, tabs[t].clientName,
                                                tabs[t].data, savedAt))
          IN  /\ clientStore' = result.item
              /\ tabs' = [tabs EXCEPT ![t].pc = "done",
                                      ![t].success = result.success]
    /\ UNCHANGED <<entries, summary, pc, sliderVars, controlVars, edits>>
    /\ UNCHANGED <<clientName, saveDialogOpen, loadDialogOpen, savedClients,
                   liquidityData, storage>>

\* the two tabs are about to save different names
InitTabs ==
    /\ entries = defaultValues
    /\ summary = EmptySummary
    /\ pc = "input"
    /\ DefaultSliders
    /\ DefaultControls
    /\ clientName = ""
    /\ saveDialogOpen = FALSE
    /\ loadDialogOpen = FALSE
    /\ savedClients = <<>>
    /\ clientStore \in StartingStores
    /\ liquidityData = NullItem
    /\ storage = "ok"
    /\ \E names \in {<<"A", "B">>, <<"B", "A">>, <<"A", "C">>} :
       \E forms \in {OneClientForm, TwoClientForm} \X {OneClientForm, TwoClientForm} :
          tabs = [t \in Tabs |->
                     [pc |-> "start",
                      clientName |-> names[t],
                      data |-> [entries |-> forms[t]],
                      store |-> [clients |-> <<>>],
                      success |-> FALSE]]

NextTabs ==
    \E t \in Tabs :
        \/ TabGetClientStore(t)
        \/ TabSetItem(t)

SpecTabs == InitTabs /\ [][NextTabs]_vars

(***************************************************************************)
(* Vocabulary of the properties: the positions of the current entry list   *)
(***************************************************************************)
\* <<i, j>>: position j of entry i
PositionIds ==
    UNION {{<<i, j>> : j \in 1..Len(entries[i].currencies)} : i \in 1..Len(entries)}

PositionAt(p) == entries[p[1]].currencies[p[2]]

CountryAt(p) == entries[p[1]].operatingCountry

\* the entry has a name, a country and at least one currency
Complete(i) ==
    /\ entries[i].clientName # ""
    /\ entries[i].operatingCountry # ""
    /\ Len(entries[i].currencies) > 0

KnownCountry(i) == entries[i].operatingCountry \in DOMAIN currencyConvertibility

\* positions of complete entries
CompleteIds == {p \in PositionIds : Complete(p[1])}

\* positions of complete entries of a country of the given category
CategoryIds(cat) ==
    {p \in CompleteIds : KnownCountry(p[1]) /\ currencyConvertibility[CountryAt(p)] = cat}

\* positions the pooling pass routes: complete entry, known country, cash > 0
RoutedIds ==
    {p \in CompleteIds : KnownCountry(p[1]) /\ PositionAt(p).cashAmount > 0}

RECURSIVE SumCash(_)
SumCash(ids) ==
    IF ids = {} THEN 0
    ELSE LET p == CHOOSE q \in ids : TRUE
         IN  PositionAt(p).cashAmount + SumCash(ids \ {p})

RECURSIVE SumBorrowing(_)
SumBorrowing(ids) ==
    IF ids = {} THEN 0
    ELSE LET p == CHOOSE q \in ids : TRUE
         IN  PositionAt(p).borrowingAmount + SumBorrowing(ids \ {p})

\* position ids in entry/currency iteration order
Before(p, q) == p[1] < q[1] \/ (p[1] = q[1] /\ p[2] < q[2])

\* the k-th (from 1) element of ids in iteration order
Nth(ids, k) ==
    CHOOSE p \in ids : Cardinality({q \in ids : Before(q, p)}) = k - 1

Links == summary.poolingSimulation.links

Nodes == summary.poolingSimulation.nodes

HasConverted(link) == "convertedValue" \in DOMAIN link

\* the rate the table gives from code to USD, 1 when it has none
TableRateToUSD(code) ==
    CASE code = "EUR" -> 1090
      [] code = "SGD" -> 740
      [] code = "MYR" -> 210
      [] code = "INR" -> 12
      [] OTHER -> RateScale

\* link k stems from the k-th routed position
LinkPosition(k) == Nth(RoutedIds, k)

(***************************************************************************)
(* Properties                                                              *)
(***************************************************************************)
Ran == pc # "input"

\* C1: after calculateSummary on a non-empty entry list, restrictedFunds is
\* the sum of cashAmount over the positions of complete entries of Restricted
\* countries, each position counted once; likewise potentialUpstreamToRTC for
\* Freely Convertible and pendingConversion for Partially Convertible.
C1_MetricsCountEachPositionOnce ==
    (Ran /\ Len(entries) > 0) =>
        /\ summary.rtcMetrics.restrictedFunds = SumCash(CategoryIds(Restricted))
        /\ summary.rtcMetrics.potentialUpstreamToRTC = SumCash(CategoryIds(Free))
        /\ summary.rtcMetrics.pendingConversion = SumCash(CategoryIds(Partial))

\* C2: the links are, in iteration order, one per cash-positive position of
\* the complete known-country entries, sourced at the country: to
\* "Restricted" without convertedValue for a Restricted country, to "RTC"
\* without convertedValue for a Freely Convertible one, to "RTC" with a
\* convertedValue for a Partially Convertible one; a position with
\* cashAmount <= 0 has no link.
C2_RoutingByCategory ==
    Ran =>
        /\ Len(Links) = Cardinality(RoutedIds)
        /\ \A k \in 1..Len(Links) :
              LET p == LinkPosition(k)
                  cat == currencyConvertibility[CountryAt(p)]
              IN  /\ Links[k].source = CountryAt(p)
                  /\ Links[k].currency = PositionAt(p).currencyCode
                  /\ cat = Restricted =>
                        Links[k].target = "Restricted" /\ ~HasConverted(Links[k])
                  /\ cat = Free =>
                        Links[k].target = "RTC" /\ ~HasConverted(Links[k])
                  /\ cat = Partial =>
                        Links[k].target = "RTC" /\ HasConverted(Links[k])

\* a run that routed one position to "Restricted" and one, with a converted
\* value, to "RTC"
C2_Witness ==
    /\ Ran
    /\ \E k \in 1..Len(Links) : Links[k].target = "Restricted"
    /\ \E k \in 1..Len(Links) : HasConverted(Links[k])

\* C3 as stated: the convertedValue of a Partially Convertible position's
\* link equals cashAmount times the table rate to USD (1 without an entry).
C3_ConvertedIsProduct ==
    Ran =>
        \A k \in 1..Len(Links) :
            HasConverted(Links[k]) =>
                Links[k].convertedValue * RateScale =
                    PositionAt(LinkPosition(k)).cashAmount
                        * TableRateToUSD(PositionAt(LinkPosition(k)).currencyCode)

\* C3 amended: the convertedValue is the larger of 0.1 and cashAmount times
\* the table rate to USD, the rate being 1 when the table has no entry for
\* the pair (unknown source currency, USD to USD).
C3_ConvertedIsFlooredProduct ==
    Ran =>
        \A k \in 1..Len(Links) :
            HasConverted(Links[k]) =>
                LET pos == PositionAt(LinkPosition(k))
                    product == pos.cashAmount * TableRateToUSD(pos.currencyCode)
                IN  Links[k].convertedValue * RateScale =
                        Max(MinLinkValue * RateScale, product)

\* a converted link at the floor (0.05 MYR), next to one above it on the
\* fallback rate 1
C3_Witness ==
    /\ Ran
    /\ \E k \in 1..Len(Links) :
          /\ HasConverted(Links[k])
          /\ Links[k].currency = "MYR"
          /\ Links[k].convertedValue = MinLinkValue
    /\ \E k \in 1..Len(Links) :
          /\ HasConverted(Links[k])
          /\ Links[k].currency # "MYR"
          /\ Links[k].convertedValue = 1000000

\* C4 as stated: after every run, the empty entry list included, the node
\* list ends with the sinks "RTC" and "Restricted".
C4_SinksAlways ==
    Ran =>
        /\ Len(Nodes) >= 2
        /\ SubSeq(Nodes, Len(Nodes) - 1, Len(Nodes)) = SinkNodes

\* C4 amended: after a run on a non-empty entry list, lists whose entries
\* are all skipped included, the node list ends with "RTC" and "Restricted".
C4_SinksWhenNonEmpty ==
    (Ran /\ Len(entries) > 0) =>
        /\ Len(Nodes) >= 2
        /\ SubSeq(Nodes, Len(Nodes) - 1, Len(Nodes)) = SinkNodes

\* a run on a non-empty list of skipped entries: no link, only the sinks
C4_Witness ==
    /\ Ran
    /\ Len(entries) > 0
    /\ \A i \in 1..Len(entries) : ~Complete(i)
    /\ Links = <<>>
    /\ Nodes = SinkNodes

\* C5 as stated: no two links share both source and currency.
C5_OneLinkPerCountryCurrency ==
    Ran =>
        \A k, l \in 1..Len(Links) :
            (Links[k].source = Links[l].source /\ Links[k].currency = Links[l].currency)
                => k = l

\* C5 amended: the graph holds one link per cash-positive position of a
\* complete known-country entry: for every country and currency code the
\* number of links equals the number of such positions, so positions of
\* several clients in one country with one currency each keep their link.
C5_OneLinkPerPosition ==
    Ran =>
        \A p \in PositionIds :
            Cardinality({k \in 1..Len(Links) :
                            /\ Links[k].source = CountryAt(p)
                            /\ Links[k].currency = PositionAt(p).currencyCode})
            = Cardinality({q \in RoutedIds :
                            /\ CountryAt(q) = CountryAt(p)
                            /\ PositionAt(q).currencyCode = PositionAt(p).currencyCode})

\* two clients in one country holding the same currency: two links
C5_Witness ==
    /\ Ran
    /\ Len(entries) = 2
    /\ Len(Links) = 2
    /\ Links[1].source = Links[2].source
    /\ Links[1].currency = Links[2].currency

\* C6: every link has value >= 0.1 and, when present, convertedValue >= 0.1.
C6_LinkFloor ==
    Ran =>
        \A k \in 1..Len(Links) :
            /\ Links[k].value >= MinLinkValue
            /\ HasConverted(Links[k]) => Links[k].convertedValue >= MinLinkValue

\* a link of a 0.05 position: its value is raised to 0.1
C6_Witness ==
    /\ Ran
    /\ \E k \in 1..Len(Links) :
          /\ PositionAt(LinkPosition(k)).cashAmount < MinLinkValue
          /\ Links[k].value = MinLinkValue

\* cash * rate to USD over ids (each product is a multiple of RateScale)
RECURSIVE SumConverted(_)
SumConverted(ids) ==
    IF ids = {} THEN 0
    ELSE LET p == CHOOSE q \in ids : TRUE
         IN  (PositionAt(p).cashAmount * TableRateToUSD(PositionAt(p).currencyCode))
                    \div RateScale
                + SumConverted(ids \ {p})

\* what the pooling pass added to a metric on top of its starting value
AddedByPooling(metric, cat) ==
    metric - summary.convertibilityTotals[cat].totalCash

\* C7: the 0.1 floor stays in the link fields.  rtcTotal is the sum of the
\* unfloored cash of the routed Freely Convertible positions and the
\* unfloored cash * rate of the routed Partially Convertible ones; each
\* category total is the sum of the unfloored cash of its positions; and the
\* amount the pooling pass adds to each rtcMetrics field is the unfloored
\* cash of the routed positions of its category.
C7_FloorOnlyOnLinks ==
    Ran =>
        /\ summary.poolingSimulation.rtcTotal =
              SumCash(RoutedIds \cap CategoryIds(Free))
                + SumConverted(RoutedIds \cap CategoryIds(Partial))
        /\ \A cat \in ConvertibilityCategory :
              summary.convertibilityTotals[cat].totalCash = SumCash(CategoryIds(cat))
        /\ AddedByPooling(summary.rtcMetrics.restrictedFunds, Restricted) =
              SumCash(RoutedIds \cap CategoryIds(Restricted))
        /\ AddedByPooling(summary.rtcMetrics.pendingConversion, Partial) =
              SumCash(RoutedIds \cap CategoryIds(Partial))
        /\ AddedByPooling(summary.rtcMetrics.potentialUpstreamToRTC, Free) =
              SumCash(RoutedIds \cap CategoryIds(Free))

\* positions below the floor in all three categories' paths: 0.05 MYR from
\* Malaysia adds 0.0105 to rtcTotal while its link carries 0.1 twice, and
\* 0.05 from China adds 0.05 to the restricted funds
C7_Witness ==
    /\ Ran
    /\ Len(Links) = 2
    /\ Links[1].value = MinLinkValue
    /\ Links[2].value = MinLinkValue
    /\ \E k \in 1..2 : HasConverted(Links[k]) /\ Links[k].convertedValue = MinLinkValue
    /\ \E k \in 1..2 : Links[k].target = "Restricted"
    /\ summary.poolingSimulation.rtcTotal = 10500
    /\ summary.convertibilityTotals[Restricted].totalCash = 50000

RECURSIVE SumTotalCash(_)
SumTotalCash(codes) ==
    IF codes = {} THEN 0
    ELSE LET c == CHOOSE d \in codes : TRUE
         IN  summary.currencyTotals[c].totalCash + SumTotalCash(codes \ {c})

RECURSIVE SumTotalBorrowing(_)
SumTotalBorrowing(codes) ==
    IF codes = {} THEN 0
    ELSE LET c == CHOOSE d \in codes : TRUE
         IN  summary.currencyTotals[c].totalBorrowing + SumTotalBorrowing(codes \ {c})

\* positions of complete entries that carry a currency code
CodedIds == {p \in CompleteIds : PositionAt(p).currencyCode # ""}

\* C8 as stated: the currency totals add up to the cash, and the borrowing,
\* of all positions of the entries that are not skipped.
C8_ConservationAllPositions ==
    Ran =>
        /\ SumTotalCash(DOMAIN summary.currencyTotals) = SumCash(CompleteIds)
        /\ SumTotalBorrowing(DOMAIN summary.currencyTotals) = SumBorrowing(CompleteIds)

\* C8 amended: the currency totals add up to the cash, and the borrowing, of
\* the positions with a non-empty currencyCode of the entries that are not
\* skipped.
C8_ConservationCodedPositions ==
    Ran =>
        /\ SumTotalCash(DOMAIN summary.currencyTotals) = SumCash(CodedIds)
        /\ SumTotalBorrowing(DOMAIN summary.currencyTotals) = SumBorrowing(CodedIds)

\* a complete entry holding a coded position with borrowing next to a
\* position without code, whose amounts stay out of the totals
C8_Witness ==
    /\ Ran
    /\ \E p \in CodedIds : PositionAt(p).borrowingAmount > 0
    /\ \E p \in CompleteIds : PositionAt(p).currencyCode = "" /\ PositionAt(p).cashAmount > 0
    /\ SumTotalBorrowing(DOMAIN summary.currencyTotals) > 0

\* the positions that contribute to the bucket of a code
Contributing(code) == {p \in CodedIds : PositionAt(p).currencyCode = code}

MaxOf(S) == CHOOSE x \in S : \A y \in S : x >= y

\* the entry list reordered by the permutation f of its indices
Reordered(f) == [i \in 1..Len(entries) |-> entries[f[i]]]

\* C9: each currency's cashInterestRate is the maximum cashInterestRate of
\* its contributing positions, likewise borrowingInterestRate, and every
\* reordering of the entries yields the same two rates.
C9_MaxRates ==
    Ran =>
        /\ DOMAIN summary.currencyTotals = {PositionAt(p).currencyCode : p \in CodedIds}
        /\ \A code \in DOMAIN summary.currencyTotals :
              /\ summary.currencyTotals[code].cashInterestRate =
                    MaxOf({PositionAt(p).cashInterestRate : p \in Contributing(code)})
              /\ summary.currencyTotals[code].borrowingInterestRate =
                    MaxOf({PositionAt(p).borrowingInterestRate : p \in Contributing(code)})
              /\ \A f \in Permutations(1..Len(entries)) :
                    LET other == calculateSummary(Reordered(f)).currencyTotals[code]
                    IN  /\ other.cashInterestRate =
                              summary.currencyTotals[code].cashInterestRate
                        /\ other.borrowingInterestRate =
                              summary.currencyTotals[code].borrowingInterestRate

\* two entries holding one currency: the first has the higher cash rate
\* (kept), the second the higher borrowing rate (replaces the stored one)
C9_Witness ==
    /\ Ran
    /\ \E p, q \in CodedIds :
          /\ p[1] < q[1]
          /\ PositionAt(p).currencyCode = PositionAt(q).currencyCode
          /\ PositionAt(p).cashInterestRate > PositionAt(q).cashInterestRate
          /\ PositionAt(p).borrowingInterestRate < PositionAt(q).borrowingInterestRate

\* C10 as stated: each currency's borrowingTenor is the tenor of its
\* last-processed contributing position.
C10_TenorOfLast ==
    Ran =>
        \A code \in DOMAIN summary.currencyTotals :
            summary.currencyTotals[code].borrowingTenor =
                PositionAt(Nth(Contributing(code),
                               Cardinality(Contributing(code)))).borrowingTenor

\* C10 amended: each currency's borrowingTenor is the tenor of its
\* first-processed contributing position in entry/currency iteration order.
C10_TenorOfFirst ==
    Ran =>
        \A code \in DOMAIN summary.currencyTotals :
            summary.currencyTotals[code].borrowingTenor =
                PositionAt(Nth(Contributing(code), 1)).borrowingTenor

\* a currency whose first and last contributing positions differ in tenor
C10_Witness ==
    /\ Ran
    /\ \E code \in DOMAIN summary.currencyTotals :
          PositionAt(Nth(Contributing(code), 1)).borrowingTenor #
              PositionAt(Nth(Contributing(code),
                             Cardinality(Contributing(code)))).borrowingTenor

(***************************************************************************)
(* Entries that take no part                                               *)
(***************************************************************************)
\* the entry list with entry i taken out
WithoutEntry(i) ==
    [k \in 1..(Len(entries) - 1) |-> IF k < i THEN entries[k] ELSE entries[k + 1]]

\* the outputs other than the node list
SameFigures(s, t) ==
    /\ s.currencyTotals = t.currencyTotals
    /\ s.convertibilityTotals = t.convertibilityTotals
    /\ s.poolingSimulation.links = t.poolingSimulation.links
    /\ s.rtcMetrics = t.rtcMetrics
    /\ s.poolingSimulation.rtcTotal = t.poolingSimulation.rtcTotal

\* C11 as stated: for an entry without a name, without a country or without
\* currencies, currencyTotals, convertibilityTotals, the nodes, the links,
\* rtcMetrics and rtcTotal are those computed from the list without that
\* entry.
C11_SkippedEntryAbsent ==
    Ran =>
        \A i \in 1..Len(entries) :
            ~Complete(i) =>
                LET rest == calculateSummary(WithoutEntry(i))
                IN  /\ SameFigures(summary, rest)
                    /\ Nodes = rest.poolingSimulation.nodes

\* C11: for an entry without a name, without a country or without
\* currencies, currencyTotals, convertibilityTotals, the links, rtcMetrics
\* and rtcTotal are those computed from the list without that entry; so are
\* the nodes when another entry remains, and when none remains the nodes are
\* the two sinks where the emptied list gives no node.
C11_SkippedEntryAbsentButSinks ==
    Ran =>
        \A i \in 1..Len(entries) :
            ~Complete(i) =>
                LET rest == calculateSummary(WithoutEntry(i))
                IN  /\ SameFigures(summary, rest)
                    /\ Len(entries) > 1 => Nodes = rest.poolingSimulation.nodes
                    /\ Len(entries) = 1 =>
                          Nodes = SinkNodes /\ rest.poolingSimulation.nodes = <<>>

\* a nameless entry holding cash stands before a complete entry with a link
C11_Witness ==
    /\ Ran
    /\ Len(entries) = 2
    /\ entries[1].clientName = ""
    /\ Len(entries[1].currencies) > 0
    /\ entries[1].currencies[1].cashAmount > 0
    /\ entries[1].currencies[1].currencyCode # ""
    /\ Complete(2)
    /\ Len(Links) > 0

(***************************************************************************)
(* Countries the convertibility table does not hold                        *)
(***************************************************************************)
RECURSIVE CashOfCode(_, _, _)
\* the cash of the positions j.. of a currency list that carry the code
CashOfCode(currencies, code, j) ==
    IF j > Len(currencies) THEN 0
    ELSE (IF currencies[j].currencyCode = code THEN currencies[j].cashAmount ELSE 0)
            + CashOfCode(currencies, code, j + 1)

\* totalCash of a code in currency totals, 0 when they have no such bucket
TotalCashIn(totals, code) ==
    IF code \in DOMAIN totals THEN totals[code].totalCash ELSE 0

\* C12: a complete entry whose country has no entry in the convertibility
\* table adds the cash of its coded positions to currencyTotals, is listed
\* in no category, has no node and no link, and leaves convertibilityTotals,
\* the links, rtcMetrics and rtcTotal as they are computed without it.
C12_UnknownCountryOnlyInCurrencyTotals ==
    Ran =>
        \A i \in 1..Len(entries) :
            (Complete(i) /\ ~KnownCountry(i)) =>
                LET rest == calculateSummary(WithoutEntry(i))
                    country == entries[i].operatingCountry
                    cs == entries[i].currencies
                IN  /\ \A j \in 1..Len(cs) :
                          cs[j].currencyCode # "" =>
                              /\ cs[j].currencyCode \in DOMAIN summary.currencyTotals
                              /\ summary.currencyTotals[cs[j].currencyCode].totalCash =
                                    TotalCashIn(rest.currencyTotals, cs[j].currencyCode)
                                        + CashOfCode(cs, cs[j].currencyCode, 1)
                    /\ summary.convertibilityTotals = rest.convertibilityTotals
                    /\ \A cat \in ConvertibilityCategory :
                          ~Contains(summary.convertibilityTotals[cat].countries, country)
                    /\ ~HasNode(Nodes, country)
                    /\ \A k \in 1..Len(Links) : Links[k].source # country
                    /\ Links = rest.poolingSimulation.links
                    /\ summary.rtcMetrics = rest.rtcMetrics
                    /\ summary.poolingSimulation.rtcTotal = rest.poolingSimulation.rtcTotal

\* an entry of an unknown country holding 1.0 of "MYR" next to an entry of a
\* known country with a link: the unknown entry's cash is in currencyTotals
C12_Witness ==
    /\ Ran
    /\ Len(entries) = 2
    /\ Complete(1) /\ ~KnownCountry(1)
    /\ entries[1].currencies[1].currencyCode = "MYR"
    /\ entries[1].currencies[1].cashAmount = 1000000
    /\ Complete(2) /\ KnownCountry(2)
    /\ Len(Links) = 1
    /\ summary.currencyTotals["MYR"].totalCash = 2000000

(***************************************************************************)
(* The countries lists of the categories                                   *)
(***************************************************************************)
CountriesOf(cat) == summary.convertibilityTotals[cat].countries

\* C13: after a recompute no country is listed twice in a category, no
\* country is listed in two categories, and the countries a category lists
\* are the countries of that category that a complete entry names, however
\* many entries name the same country.
C13_CategoryPartition ==
    Ran =>
        \A cat \in ConvertibilityCategory :
            /\ \A a, b \in 1..Len(CountriesOf(cat)) :
                  CountriesOf(cat)[a] = CountriesOf(cat)[b] => a = b
            /\ \A other \in ConvertibilityCategory \ {cat} :
                  \A a \in 1..Len(CountriesOf(cat)) :
                      ~Contains(CountriesOf(other), CountriesOf(cat)[a])
            /\ {CountriesOf(cat)[a] : a \in 1..Len(CountriesOf(cat))} =
                  {CountryAt(p) : p \in CategoryIds(cat)}

\* two complete entries name the same country, which is listed once
C13_Witness ==
    /\ Ran
    /\ Len(entries) = 2
    /\ Complete(1) /\ Complete(2)
    /\ entries[1].operatingCountry = "Malaysia"
    /\ entries[2].operatingCountry = "Malaysia"
    /\ CountriesOf(Partial) = <<"Malaysia">>

(***************************************************************************)
(* Fields that hold no number                                              *)
(***************************************************************************)
\* a finite number, neither NaN nor a text
IsFinite(v) == v >= LeastNumber

\* the number a field stands for, 0 for a field that stands for none
Coerced(v) ==
    IF IsNumericText(v) THEN TextNumber(v)
    ELSE IF IsFinite(v) THEN v
    ELSE 0

RECURSIVE SumCoerced(_, _)
\* the sum of the coerced field f over the positions ids
SumCoerced(ids, f) ==
    IF ids = {} THEN 0
    ELSE LET p == CHOOSE q \in ids : TRUE
         IN  Coerced(PositionAt(p)[f]) + SumCoerced(ids \ {p}, f)

\* C14: the aggregator takes 0 for a cashAmount, borrowingAmount or rate that
\* is no number and the field's number otherwise: every bucket of
\* currencyTotals and every category of convertibilityTotals holds the sums
\* of the coerced cash and borrowing of its positions and their difference,
\* every bucket holds the highest coerced rates, and all of them are finite
\* numbers.
C14_AggregatorCoerces ==
    Ran =>
        /\ DOMAIN summary.currencyTotals = {PositionAt(p).currencyCode : p \in CodedIds}
        /\ \A code \in DOMAIN summary.currencyTotals :
              LET bucket == summary.currencyTotals[code]
                  ids == Contributing(code)
              IN  /\ bucket.totalCash = SumCoerced(ids, "cashAmount")
                  /\ bucket.totalBorrowing = SumCoerced(ids, "borrowingAmount")
                  /\ bucket.netPosition = bucket.totalCash - bucket.totalBorrowing
                  /\ bucket.cashInterestRate =
                        MaxOf({Coerced(PositionAt(p).cashInterestRate) : p \in ids})
                  /\ bucket.borrowingInterestRate =
                        MaxOf({Coerced(PositionAt(p).borrowingInterestRate) : p \in ids})
                  /\ IsFinite(bucket.totalCash) /\ IsFinite(bucket.totalBorrowing)
                  /\ IsFinite(bucket.cashInterestRate)
                  /\ IsFinite(bucket.borrowingInterestRate)
        /\ \A cat \in ConvertibilityCategory :
              LET tot == summary.convertibilityTotals[cat]
              IN  /\ tot.totalCash = SumCoerced(CategoryIds(cat), "cashAmount")
                  /\ tot.totalBorrowing = SumCoerced(CategoryIds(cat), "borrowingAmount")
                  /\ tot.netPosition = tot.totalCash - tot.totalBorrowing
                  /\ IsFinite(tot.totalCash) /\ IsFinite(tot.totalBorrowing)

\* a position with a malformed cashAmount and borrowing 1.0 stands next to a
\* position with cash 2.0 and a malformed borrowing rate: the bucket holds
\* the cash 2.0 of the one and the borrowing 1.0 of the other
C14_Witness ==
    /\ Ran
    /\ \E p \in CodedIds :
          /\ PositionAt(p).cashAmount = MalformedText
          /\ PositionAt(p).borrowingAmount = 1000000
    /\ \E p \in CodedIds :
          /\ PositionAt(p).cashAmount = 2000000
          /\ PositionAt(p).borrowingInterestRate = MalformedText
          /\ PositionAt(p).borrowingAmount = MalformedText
    /\ Cardinality(CodedIds) = 2
    /\ summary.currencyTotals["MYR"].totalCash = 2000000
    /\ summary.currencyTotals["MYR"].totalBorrowing = 1000000

\* the entry list with every cashAmount replaced by the number it stands for
ParsedEntries ==
    [i \in 1..Len(entries) |->
        [entries[i] EXCEPT !.currencies =
            [j \in 1..Len(entries[i].currencies) |->
                [entries[i].currencies[j] EXCEPT !.cashAmount = Coerced(@)]]]]

\* C15: the pooling pass works on the parsed cashAmount, 0 when it is no
\* number: the nodes, the links, rtcTotal and rtcMetrics are those of the
\* entry list whose cashAmount fields hold the parsed numbers, so a text
\* that is no number gives no link and every figure is a finite number.
C15_PoolingParsesCash ==
    Ran =>
        /\ summary.poolingSimulation = calculateSummary(ParsedEntries).poolingSimulation
        /\ summary.rtcMetrics = calculateSummary(ParsedEntries).rtcMetrics
        /\ IsFinite(summary.poolingSimulation.rtcTotal)
        /\ \A k \in 1..Len(Links) : IsFinite(Links[k].value)

(***************************************************************************)
(* The what-if figures                                                     *)
(***************************************************************************)
RECURSIVE SumValueAt(_)
\* the sum of link.value over the links at the indices ks
SumValueAt(ks) ==
    IF ks = {} THEN 0
    ELSE LET k == CHOOSE j \in ks : TRUE
         IN  Links[k].value + SumValueAt(ks \ {k})

\* the indices of the links into "RTC"
RTCLinkIds == {k \in 1..Len(Links) : Links[k].target = "RTC"}

\* C16: the pooled cash after the haircut is the sum of link.value over the
\* links into "RTC" times (1 - fxHaircut/100), whatever links into
\* "Restricted" exist, and the credit interest is that amount times
\* blendedCreditRate/100.
C16_PooledCashAndCreditInterest ==
    Ran =>
        /\ GrandTotal * 10 = (SumValueAt(RTCLinkIds) \div 100) * (HaircutScale - fxHaircut)
        /\ CreditInterest * 100 = (GrandTotal \div 100) * blendedCreditRate

\* 1.0 pooled into "RTC" next to a link into "Restricted": at a haircut of
\* 10 percent the pooled cash is 0.9 and at 2.5 percent the credit interest
\* is 0.0225
C16_Witness ==
    /\ Ran
    /\ \E k \in 1..Len(Links) : Links[k].target = "Restricted"
    /\ SumValueAt(RTCLinkIds) = 1000000
    /\ fxHaircut = 100
    /\ blendedCreditRate = 250
    /\ GrandTotal = 900000
    /\ CreditInterest = 22500

RECURSIVE SumBorrowingCost(_)
\* the sum over the positions ids of the borrowing amount times the
\* borrowing rate currencyTotals keeps for the position's currency / 100; a
\* position without currency code has no bucket and no rate
SumBorrowingCost(ids) ==
    IF ids = {} THEN 0
    ELSE LET p == CHOOSE q \in ids : TRUE
             code == PositionAt(p).currencyCode
             rate == IF code \in DOMAIN summary.currencyTotals
                     THEN summary.currencyTotals[code].borrowingInterestRate
                     ELSE 0
         IN  (PositionAt(p).borrowingAmount * rate) \div 100
                + SumBorrowingCost(ids \ {p})

\* C17: the pre-pooling interest expense, in the Pre-Pooling card and in the
\* Net Savings card, is the sum over all positions of the complete entries,
\* whatever the country, of borrowing amount times the currency's bookkept
\* borrowing rate / 100, at every setting of the sliders.
C17_PrePoolingExpense ==
    Ran =>
        /\ PrePoolingExpense = SumBorrowingCost(CompleteIds)
        /\ CurrentExpense = SumBorrowingCost(CompleteIds)

\* a Restricted and an unknown country borrow 1.0 of "MYR" each, one at 1
\* and one at 3 percent: the expense is 0.06, at the bookkept 3 percent for
\* both, with the haircut and the debit rate moved off their defaults
C17_Witness ==
    /\ Ran
    /\ Len(entries) = 2
    /\ entries[1].operatingCountry = "China"
    /\ entries[2].operatingCountry = "Atlantis"
    /\ Len(entries[1].currencies) = 1
    /\ Len(entries[2].currencies) = 1
    /\ \A p \in CompleteIds :
          PositionAt(p).currencyCode = "MYR" /\ PositionAt(p).borrowingAmount = 1000000
    /\ PositionAt(<<1, 1>>).borrowingInterestRate = 1
    /\ PositionAt(<<2, 1>>).borrowingInterestRate = 3
    /\ fxHaircut = 100
    /\ usdDebitRate = 300
    /\ PrePoolingExpense = 60000

\* positions of complete entries outside the Restricted countries
OutsideRestrictedIds == CompleteIds \ CategoryIds(Restricted)

\* 100 times the post-pooling expense for a total borrowing: the debit
\* interest on the pooled cash, and on the shortfall when the borrowing
\* exceeds the pooled cash
PostPoolingCost(totalBorrowing) ==
    LET netPosition == GrandTotal - totalBorrowing
    IN  (GrandTotal \div 100) * usdDebitRate
            + (IF netPosition < 0 THEN (Abs(netPosition) \div 100) * usdDebitRate ELSE 0)

\* C18 as stated: the post-pooling expense is cashPoolBorrowingCost plus
\* additionalBorrowingCost with totalBorrowing the borrowing of all
\* positions of the complete entries outside the Restricted countries, and
\* the Post-Pooling card and the Net Savings card hold the same value.
C18_PostPoolingAllPositions ==
    Ran =>
        /\ PostPoolingCardExpense * 100 =
              PostPoolingCost(SumBorrowing(OutsideRestrictedIds))
        /\ PostPoolingExpense = PostPoolingCardExpense

\* C18: the post-pooling expense is cashPoolBorrowingCost plus
\* additionalBorrowingCost with totalBorrowing the borrowing of the positions
\* with a currency code of the complete entries outside the Restricted
\* countries, and the Post-Pooling card and the Net Savings card hold the
\* same value.
C18_PostPoolingCodedPositions ==
    Ran =>
        /\ PostPoolingCardExpense * 100 =
              PostPoolingCost(SumBorrowing(OutsideRestrictedIds \cap CodedIds))
        /\ PostPoolingExpense = PostPoolingCardExpense

\* a Restricted and an unknown country borrow 2.0 each and nothing is
\* pooled: only the unknown country's 2.0 is short, which costs 0.1 at the
\* debit rate of 5 percent
C18_Witness ==
    /\ Ran
    /\ Len(entries) = 2
    /\ entries[1].operatingCountry = "China"
    /\ entries[2].operatingCountry = "Atlantis"
    /\ Len(entries[1].currencies) = 1
    /\ Len(entries[2].currencies) = 1
    /\ \A p \in CompleteIds :
          PositionAt(p).currencyCode = "MYR" /\ PositionAt(p).borrowingAmount = 2000000
    /\ usdDebitRate = 500
    /\ GrandTotal = 0
    /\ PostPoolingCardExpense = 100000

IsCountryNode(node) == node.id \notin {"RTC", "Restricted"}

CountryNodes == SelectSeq(Nodes, IsCountryNode)

\* complete known-country entries whose country no earlier such entry has
FirstOfCountry ==
    {i \in 1..Len(entries) :
        /\ Complete(i)
        /\ KnownCountry(i)
        /\ \A j \in 1..(i - 1) :
              (Complete(j) /\ KnownCountry(j)) =>
                  entries[j].operatingCountry # entries[i].operatingCountry}

\* the k-th (from 1) element of a set of entry indices
NthEntry(ids, k) ==
    CHOOSE i \in ids : Cardinality({j \in ids : j < i}) = k - 1

\* C23: the country nodes of the pooling graph are, in order of first
\* appearance, one per distinct operating country of the complete
\* known-country entries, each with that country's category; a country shared
\* by several entries has one node, and an entry without positive cash still
\* gets its node.
C23_NodePerDistinctCountry ==
    Ran =>
        /\ Len(CountryNodes) = Cardinality(FirstOfCountry)
        /\ \A k \in 1..Len(CountryNodes) :
              LET country == entries[NthEntry(FirstOfCountry, k)].operatingCountry
              IN  CountryNodes[k] =
                      [id |-> country, category |-> currencyConvertibility[country]]

\* two complete entries share Malaysia, neither holds positive cash, and the
\* graph holds the one Malaysia node
C23_Witness ==
    /\ Ran
    /\ Len(entries) = 2
    /\ \A i \in 1..2 :
          /\ Complete(i)
          /\ entries[i].operatingCountry = "Malaysia"
          /\ \A j \in 1..Len(entries[i].currencies) :
                entries[i].currencies[j].cashAmount <= 0
    /\ CountryNodes = <<[id |-> "Malaysia", category |-> Partial]>>
    /\ Len(Links) = 0

(***************************************************************************)
(* The two aggregations side by side                                       *)
(***************************************************************************)
RECURSIVE SumTotalNet(_)
SumTotalNet(codes) ==
    IF codes = {} THEN 0
    ELSE LET c == CHOOSE d \in codes : TRUE
         IN  summary.currencyTotals[c].netPosition + SumTotalNet(codes \ {c})

\* the sum of a field of convertibilityTotals over the three categories
CategoriesCash ==
    summary.convertibilityTotals[Restricted].totalCash
        + summary.convertibilityTotals[Partial].totalCash
        + summary.convertibilityTotals[Free].totalCash

CategoriesBorrowing ==
    summary.convertibilityTotals[Restricted].totalBorrowing
        + summary.convertibilityTotals[Partial].totalBorrowing
        + summary.convertibilityTotals[Free].totalBorrowing

CategoriesNet ==
    summary.convertibilityTotals[Restricted].netPosition
        + summary.convertibilityTotals[Partial].netPosition
        + summary.convertibilityTotals[Free].netPosition

\* C24: when every entry that is not skipped has a known country, the
\* category totals and the currency totals add up to the same cash, the same
\* borrowing and the same net position, also for a list holding a position
\* with an empty currencyCode.
C24_AggregationsAgree ==
    (Ran /\ \A i \in 1..Len(entries) : Complete(i) => KnownCountry(i)) =>
        /\ CategoriesCash = SumTotalCash(DOMAIN summary.currencyTotals)
        /\ CategoriesBorrowing = SumTotalBorrowing(DOMAIN summary.currencyTotals)
        /\ CategoriesNet = SumTotalNet(DOMAIN summary.currencyTotals)

\* C25: without haircut, the pooled cash of the what-if calculation (the sum
\* of link.value over the links into "RTC") is poolingSimulation.rtcTotal,
\* also for Partially Convertible positions whose rate differs from 1.
C25_PooledFiguresAgree ==
    (Ran /\ fxHaircut = 0) =>
        /\ SumValueAt(RTCLinkIds) = summary.poolingSimulation.rtcTotal
        /\ GrandTotal = summary.poolingSimulation.rtcTotal

(***************************************************************************)
(* The what-if parameters and the filters change nothing else              *)
(***************************************************************************)
SliderMoved ==
    \/ fxHaircut' # fxHaircut
    \/ blendedCreditRate' # blendedCreditRate
    \/ usdDebitRate' # usdDebitRate

\* C26: a step that changes a what-if parameter or a filter leaves the
\* entries and the summary (currencyTotals, convertibilityTotals, rtcMetrics
\* and the pooling graph) as they are; a step that changes one parameter
\* leaves the other two, and a step that changes a filter leaves the
\* parameters and every what-if figure as they are.
C26_ParametersAndFiltersFrame ==
    [][/\ (SliderMoved \/ filters' # filters) =>
              (entries' = entries /\ summary' = summary)
       /\ fxHaircut' # fxHaircut =>
              (blendedCreditRate' = blendedCreditRate /\ usdDebitRate' = usdDebitRate)
       /\ blendedCreditRate' # blendedCreditRate =>
              (fxHaircut' = fxHaircut /\ usdDebitRate' = usdDebitRate)
       /\ usdDebitRate' # usdDebitRate =>
              (fxHaircut' = fxHaircut /\ blendedCreditRate' = blendedCreditRate)
       /\ filters' # filters =>
              /\ ~SliderMoved
              /\ GrandTotal' = GrandTotal
              /\ CreditInterest' = CreditInterest
              /\ PrePoolingExpense' = PrePoolingExpense
              /\ PostPoolingExpense' = PostPoolingExpense
              /\ NetSavings' = NetSavings
              /\ SavingsPercentage' = SavingsPercentage]_vars

\* every parameter and every filter has been moved off its default, over a
\* summary that holds pooled cash and borrowing
C26_Witness ==
    /\ Ran
    /\ fxHaircut = 100
    /\ blendedCreditRate = 100
    /\ usdDebitRate = 300
    /\ filters = [clientName |-> "acme", country |-> "China",
                  category |-> Restricted, currency |-> "MYR"]
    /\ GrandTotal > 0
    /\ PrePoolingExpense > 0

(***************************************************************************)
(* The handlers of the form                                                *)
(***************************************************************************)
\* C21: once the first calculation has run, after every handler that
\* changes the entries (a field's onChange, append, remove, country change,
\* currency confirmation and removal, load configuration, load sample,
\* reset) the summary in state is calculateSummary of the current entries.
C21_SummaryFollowsEntries ==
    Ran => summary = calculateSummary(entries)

\* the sample was loaded and its first client removed: the summary holds
\* the three clients left
C21_Witness ==
    /\ edits = 2
    /\ Len(entries) = 3
    /\ entries[1].clientName = "China Restricted"
    /\ Len(summary.clients) = 3
    /\ summary.clients[1].clientName = "China Restricted"
    /\ ~HasNode(Nodes, "Singapore")

\* C29: removeCurrency never leaves a client without a currency.  Called on
\* a client's only position it sets nothing and shows the error toast;
\* called on one of several it sets the list without the position at the
\* given index, the others in their order, and no other client changes.
C29_RemoveCurrencyKeepsOne ==
    [][removeCurrency =>
          /\ \A i \in 1..Len(entries) :
                \A j \in 1..Len(entries[i].currencies) :
                    LET before == entries[i].currencies
                        result == RemoveGuarded(before, j)
                    IN  IF Len(before) = 1
                        THEN ~result.removed /\ result.currencies = before
                        ELSE /\ result.removed
                             /\ Len(result.currencies) = Len(before) - 1
                             /\ \A k \in 1..(j - 1) : result.currencies[k] = before[k]
                             /\ \A k \in j..(Len(before) - 1) :
                                   result.currencies[k] = before[k + 1]
          /\ \E i \in 1..Len(entries) :
                \E j \in 1..Len(entries[i].currencies) :
                    LET before == entries[i].currencies
                    IN  /\ entries' =
                               [entries EXCEPT ![i].currencies =
                                   RemoveGuarded(before, j).currencies]
                        /\ Len(entries'[i].currencies) >= 1
                        /\ Len(before) = 1 =>
                               (entries' = entries /\ toast'.title = "Cannot remove")]_vars

\* the first of two positions was removed, and removing the one left was
\* refused
C29_Witness ==
    /\ edits = 2
    /\ Len(entries) = 2
    /\ entries[1].currencies = <<Position("USD", 2000000, 0, 0, 0, "Short Term")>>
    /\ entries[2] = TwoClientForm[2]
    /\ toast.title = "Cannot remove"

\* C30: handleCurrencySelection after addCurrency adds the selected
\* currencies: every position a client held before, with its amounts, rates
\* and tenor, is among its positions afterwards; with an empty selection the
\* currencies and the open selection stay as they are.
C30_AddCurrencyKeepsPositions ==
    [][handleCurrencySelection =>
          /\ Len(entries') = Len(entries)
          /\ \A i \in 1..Len(entries) :
                \A k \in 1..Len(entries[i].currencies) :
                    \E j \in 1..Len(entries'[i].currencies) :
                        entries'[i].currencies[j] = entries[i].currencies[k]
          /\ (\A i \in 1..Len(entries) : IsOpen(i) => Len(SelectedOf(i)) = 0) =>
                 /\ entries' = entries
                 /\ currencySelectionOpen' = currencySelectionOpen]_vars

\* the snapshots a reader finds under CLIENT_STORE_KEY
Snapshots == IF clientStore.kind = "json" THEN clientStore.clients ELSE <<>>

\* the snapshots of the names other than name, in stored order
OtherSnapshots(clients, name) == SelectSeq(clients, LAMBDA c : c.name # name)

\* the snapshots stored under name
SnapshotsOf(clients, name) == SelectSeq(clients, LAMBDA c : c.name = name)

SavedSuccessfully == handleSaveClient /\ storage = "ok" /\ Trim(clientName) # ""

DeletedSuccessfully == handleDeleteClient /\ storage = "ok"

\* C22: the named-snapshot store is a map from name to snapshot with last
\* write wins: a name never has two snapshots; a successful save of a name
\* leaves exactly the saved data under it; a successful delete of a name
\* leaves nothing under it; either leaves the snapshots of every other name,
\* and their order, as they were; nothing else writes the store.
C22_StoreIsMapLastWriteWins ==
    /\ [](\A j, k \in 1..Len(Snapshots) :
             Snapshots[j].name = Snapshots[k].name => j = k)
    /\ [][/\ SavedSuccessfully =>
                /\ Len(SnapshotsOf(Snapshots', clientName)) = 1
                /\ SnapshotsOf(Snapshots', clientName)[1].data = [entries |-> entries]
                /\ OtherSnapshots(Snapshots', clientName)
                       = OtherSnapshots(Snapshots, clientName)
          /\ DeletedSuccessfully =>
                \E k \in 1..Len(savedClients) :
                    /\ SnapshotsOf(Snapshots', savedClients[k].name) = <<>>
                    /\ Snapshots' = OtherSnapshots(Snapshots, savedClients[k].name)
          /\ ~(SavedSuccessfully \/ DeletedSuccessfully) =>
                clientStore' = clientStore]_vars

\* "A" saved over yesterday's "A" with the form of two clients, then "B" deleted
C22_Witness ==
    /\ edits = 2
    /\ toast.description = "Client configuration deleted successfully"
    /\ Len(Snapshots) = 1
    /\ Snapshots[1].name = "A"
    /\ Snapshots[1].savedAt = "today"
    /\ Snapshots[1].data = [entries |-> TwoClientForm]

\* the calls of the store functions the dialogs can make in this state
StoreCalls ==
    {saveToClientStore(name, [entries |-> entries], savedAt) :
         name \in TypedStoreNames, savedAt \in Times}
        \cup {deleteFromClientStore(name) : name \in TypedStoreNames}

\* C28: saveToClientStore and deleteFromClientStore return false and leave
\* the stored item as it is when there is no storage or the write throws;
\* getClientStore returns the empty store when nothing is stored or the item
\* does not parse; handleSaveClient with a blank name writes nothing and
\* keeps the save dialog open.
C28_FailuresLeaveStore ==
    /\ [](/\ storage # "ok" =>
                \A call \in StoreCalls :
                    /\ ~call.success
                    /\ call.item = clientStore
          /\ clientStore.kind \in {"null", "corrupt"} =>
                getClientStore(clientStore) = [clients |-> <<>>])
    /\ [][/\ (handleSaveClient /\ Trim(clientName) = "") =>
                /\ clientStore' = clientStore
                /\ savedClients' = savedClients
                /\ saveDialogOpen'
                /\ toast'.description = "Please enter a client name"
          /\ ((handleSaveClient \/ handleDeleteClient) /\ storage # "ok") =>
                /\ clientStore' = clientStore
                /\ savedClients' = savedClients
                /\ saveDialogOpen' = saveDialogOpen
                /\ toast'.title = "Error"]_vars

\* a save of "B" that the full storage refused, over yesterday's "A"
C28_Witness ==
    /\ storage = "full"
    /\ clientName = "B"
    /\ saveDialogOpen
    /\ toast.description = "Failed to save client configuration"
    /\ Len(Snapshots) = 1
    /\ Snapshots[1].savedAt = "yesterday"

\* tab t's call returned true
Saved(t) == tabs[t].pc = "done" /\ tabs[t].success

\* the store holds what tab t saved, under the name it saved it
Holds(t) ==
    \E k \in 1..Len(Snapshots) :
        /\ Snapshots[k].name = tabs[t].clientName
        /\ Snapshots[k].data = tabs[t].data

\* C27: when two sessions on the same storage each save a different name,
\* with their reads and writes of the store interleaved in any order, the
\* store ends up holding both snapshots.
C27_BothSavesSurvive ==
    (\A t \in Tabs : Saved(t)) => (\A t \in Tabs : Holds(t))

====
